---- MODULE Spec2Model ----
(***************************************************************************)
(* A model of the EFsafari dashboard backend (backend/api, backend/*_etl). *)
(*                                                                         *)
(* The module holds several state machines over one set of variables:      *)
(*   Spec      the spend-correction ledger of routers/daily_report.py      *)
(*             (table ad_platform.dwd_daily_report and the three handlers  *)
(*             that write it), with the fact table it is synced from;      *)
(*   SpecPerm  the permission-filter builders of the three report          *)
(*             families (pure functions, applied to drawn inputs);         *)
(*   SpecHier  the hierarchy builders of routers/dashboard.py and          *)
(*             routers/daily_report.py folding a drawn list of flat rows;  *)
(*   SpecMerge the MTG cost merge of clickflare_etl/cf_etl.py;             *)
(*   SpecEtl   the cf_hourly_etl.py processes and the four ways to start   *)
(*             one, over the table ad_platform.hourly_report;              *)
(*   SpecDaily one run of ClickflareETL.run over the fact table;           *)
(*   SpecSched the API workers calling start_scheduler and stop_scheduler; *)
(*   SpecTz    the time zone arithmetic of the hourly query;               *)
(*   SpecPass  merge_two_pass_data over drawn pass-1 and pass-2 rows;      *)
(*   SpecConc  update-spend, statement by statement, beside syncs on the   *)
(*             ledger's table;                                             *)
(*   SpecCache the hourly:* cache entries, the requests and refresh        *)
(*             threads that fill them and the ETL task that clears them;   *)
(*   SpecRetry one call of _do_request_with_retry (SpecRetryFair: with     *)
(*             weak fairness of its steps).                                *)
(* Each specification leaves the variables of the others at their idle     *)
(* values (SpecConc works on the ledger's variables).                      *)
(*                                                                         *)
(* Money (Decimal(18,4) columns, float request values) is modelled as an   *)
(* integer count of the smallest unit; a ratio is a pair num/den compared  *)
(* by cross-multiplication.                                                *)
(***************************************************************************)
EXTENDS Integers, Sequences, FiniteSets, Bags, TLC

VARIABLES
    table,        \* ad_platform.dwd_daily_report: a bag of SpendRecord rows (MergeTree keeps duplicates)
    resp,         \* the caller's role and the HTTP status of the last daily-report request
    lockReq,      \* history: the last lock value an accepted lock-date request set, per date
    lastSync,     \* history: what the request just handled, if an accepted sync, had to deliver
    permIn,       \* SpecPerm: the (family, role, keywords) drawn
    permOut,      \* SpecPerm: what the family's builder returned for permIn
    hRows,        \* SpecHier: the flat rows the query returned
    hTree,        \* SpecHier: the hierarchy built so far (path -> node)
    hFamily,      \* SpecHier: which builder runs ("dashboard" | "daily")
    hPc,          \* SpecHier: "fold" until the builder returns, then "done"
    hI,           \* SpecHier: the number of rows folded so far
    cf_data,      \* SpecMerge: the Clickflare rows, updated in place by the cost merge
    mtg_data,     \* SpecMerge: the transformed MTG rows
    mtg_by_adset, \* SpecMerge: the MTG sums per AdsetID, in insertion order
    new_rows,     \* SpecMerge: the MTG-only rows created so far
    mergePc,      \* SpecMerge: "aggregate", "merge", then "done"
    mergeI,       \* SpecMerge: the number of AdsetIDs merged so far
    cf_in,        \* SpecMerge, history: cf_data as passed to the merge
    hourly_report, \* SpecEtl: ad_platform.hourly_report, a bag of rows (MergeTree keeps duplicates)
    etl,          \* SpecEtl: the cf_hourly_etl.py processes, by process slot
    utc_now,      \* SpecEtl: the wall clock, in half hours
    latest_run,   \* SpecEtl: history, the hourly ETL run started last while it runs
    ch_table,     \* SpecDaily: the fact table dwd_marketing_report_daily, a bag of rows
    cf_run,       \* SpecDaily: the position and the locals of ClickflareETL.run
    ch_before,    \* SpecDaily, history: the fact table when the run started
    lock_holder,  \* SpecSched: the worker holding the lock on /tmp/bicode_scheduler.lock, or 0
    lock_file,    \* SpecSched: the content of the lock file (a worker's pid, or empty)
    worker,       \* SpecSched: per API worker, its position in start_scheduler and its scheduler
    tz_in,        \* SpecTz: the request drawn (date, timezone offset, hour value) and the clock
    tz_out,       \* SpecTz: what fetch_data has computed so far
    pass1_data,   \* SpecPass: the pass-1 rows, updated in place by merge_two_pass_data
    pass2_data,   \* SpecPass: the pass-2 rows
    pass2_lookup, \* SpecPass: the lookup built from pass 2, in insertion order
    passPc,       \* SpecPass: "lookup", "merge", then "done"
    passI,        \* SpecPass: the number of rows the current loop has handled
    pass1_in,     \* SpecPass, history: pass1_data as passed to the merge
    upd,          \* SpecConc: the update-spend request between its check query and its write
    wh_version,   \* SpecCache: the hourly ETL runs whose rows the warehouse holds
    cache_etl,    \* SpecCache: the scheduled hourly ETL task's position
    redis,        \* SpecCache: the hourly:* entries of the cache
    refresh_worker,\* SpecCache: the refresh thread of each key
    hourly_req,   \* SpecCache: the /api/hourly/data request being answered
    cleared_version,\* SpecCache: history, the run after which the cache was last cleared
    served,       \* SpecCache: history, the last answer
    retry_cfg,    \* SpecRetry: max_attempts, backoff_factor and retry_status_codes of the client
    retry         \* SpecRetry: one call of _do_request_with_retry

vars == <<table, resp, lockReq, lastSync,
          permIn, permOut, hRows, hTree, hFamily, hPc, hI,
          cf_data, mtg_data, mtg_by_adset, new_rows, mergePc, mergeI, cf_in,
          hourly_report, etl, utc_now, latest_run,
          ch_table, cf_run, ch_before,
          lock_holder, lock_file, worker,
          tz_in, tz_out,
          pass1_data, pass2_data, pass2_lookup, passPc, passI, pass1_in,
          upd,
          wh_version, cache_etl, redis, refresh_worker, hourly_req, cleared_version, served,
          retry_cfg, retry>>

ledgerVars == <<table, resp, lockReq, lastSync>>
permVars   == <<permIn, permOut>>
hierVars   == <<hRows, hTree, hFamily, hPc, hI>>
mergeVars  == <<cf_data, mtg_data, mtg_by_adset, new_rows, mergePc, mergeI, cf_in>>
etlVars    == <<hourly_report, etl, utc_now, latest_run>>
dailyVars  == <<ch_table, cf_run, ch_before>>
schedVars  == <<lock_holder, lock_file, worker>>
tzVars     == <<tz_in, tz_out>>
passVars   == <<pass1_data, pass2_data, pass2_lookup, passPc, passI, pass1_in>>
concVars   == <<upd>>
cacheVars  == <<wh_version, cache_etl, redis, refresh_worker, hourly_req, cleared_version, served>>
retryVars  == <<retry_cfg, retry>>

-----------------------------------------------------------------------------
(* Bounds of the model *)

MaxRows == 2   \* rows the daily-report table may hold

-----------------------------------------------------------------------------
(* Values *)

None == "None"

\* The calendar days of the model, in order: comparing two of them is comparing
\* their positions, as 'reportDate >= start_date' does for ISO dates.
DAYS == <<"2026-01-01", "2026-01-02">>
Dates == {DAYS[i] : i \in DOMAIN DAYS}
DayNo(d) == CHOOSE i \in DOMAIN DAYS : DAYS[i] = d

\* A request date that datetime.strptime(.., '%Y-%m-%d') rejects.
InvalidDate == "2026-13-01"
DateInputs == Dates \cup {InvalidDate}

MediaNames == {"Google", "Mintegral"}
LedgerRoles == {"ops", "business"}

\* The fact rows the daily ETL may load, keyed (reportDate, Media, offer);
\* (2026-01-01, Google) has two offers, so that sum(spend) GROUP BY reportDate,
\* Media adds rows up, and their spends differ, so that a sum is not a count.
FactUniverse ==
    { [reportDate |-> "2026-01-01", Media |-> "Google", offer |-> "o1", spend |-> 1],
      [reportDate |-> "2026-01-01", Media |-> "Google", offer |-> "o2", spend |-> 2],
      [reportDate |-> "2026-01-02", Media |-> "Google", offer |-> "o1", spend |-> 1] }

\* Every content of ad_platform.dwd_marketing_report_daily. The daily ETL replaces
\* a report date's fact rows at any time, independently of the daily-report
\* handlers, so a sync reads any of these.
FactTables == SUBSET FactUniverse

\* The spend_value of an update-spend request.
TargetValues == {0, 2}

\* The requests the handlers are called with: <<role, arguments...>>. Every
\* well-formed request comes with a role that may write and one that may not; a
\* date that does not parse comes once per role.
SyncRequests ==
    { q \in LedgerRoles \X Dates \X Dates \X FactTables :
        \* the fact rows a sync reads are those of its range, and a request of
        \* the business role is refused before it reads any
        /\ \A f \in q[4] : DayNo(q[2]) <= DayNo(f.reportDate) /\ DayNo(f.reportDate) <= DayNo(q[3])
        /\ q[1] = "business" => q[4] = {} }
        \cup (LedgerRoles \X {InvalidDate} \X Dates \X {{}})
        \cup (LedgerRoles \X Dates \X {InvalidDate} \X {{}})

UpdateRequests ==
    { q \in LedgerRoles \X DateInputs \X MediaNames \X TargetValues :
        /\ q[2] = "2026-01-02" => q[3] = "Google"
        /\ q[2] = InvalidDate => (q[3] = "Google" /\ q[4] = 0) }

LockRequests ==
    { q \in LedgerRoles \X DateInputs \X BOOLEAN : q[2] = InvalidDate => q[3] }

-----------------------------------------------------------------------------
\* sum(spend) over a set of fact rows
RECURSIVE SumSpendOf(_)
SumSpendOf(S) ==
    IF S = {} THEN 0
    ELSE LET x == CHOOSE y \in S : TRUE
         IN x.spend + SumSpendOf(S \ {x})

-----------------------------------------------------------------------------
(* The spend-correction ledger: routers/daily_report.py *)

\* A role check that also lets the business role write.
WritersWithBusiness == {"admin", "ops", "business"}

\* user_role not in ['admin', 'ops'] -> 403
Writers == {"admin", "ops"}

\* datetime.strptime(request.date, '%Y-%m-%d') succeeds
ValidDate(d) == d \in Dates

InRange(d, s, e) == DayNo(d) >= DayNo(s) /\ DayNo(d) <= DayNo(e)

Response(role, status) == [role |-> role, status |-> status]

\* History: the sums a sync over [s, e] reading src owes, one <<date, media, sum>> per
\* source group in range none of whose stored rows is locked, and whether the sync
\* found a manual correction on a row of such a group.
NoSync == [due |-> {}, dropped |-> FALSE]

SyncDue(t, src, s, e) ==
    LET free == { <<f.reportDate, f.Media>> :
                    f \in { g \in src :
                              /\ DayNo(s) <= DayNo(g.reportDate)
                              /\ DayNo(g.reportDate) <= DayNo(e)
                              /\ \A r \in DOMAIN t :
                                    (r.reportDate = g.reportDate /\ r.Media = g.Media)
                                        => r.is_locked = 0 } }
    IN [due |-> { <<k[1], k[2],
                    SumSpendOf({f \in src : f.reportDate = k[1] /\ f.Media = k[2]})>> :
                  k \in free },
        dropped |-> \E k \in free : \E r \in DOMAIN t :
                        r.reportDate = k[1] /\ r.Media = k[2] /\ r.spend_manual # 0]

\* raise HTTPException(...): nothing has been written yet
Reject(role, status) ==
    /\ resp' = Response(role, status)
    /\ lastSync' = NoSync
    /\ UNCHANGED <<table, lockReq>>

\* sum(spend) ... GROUP BY reportDate, Media over the fact rows of one group
SumSpend(src, d, m) ==
    SumSpendOf({f \in src : f.reportDate = d /\ f.Media = m})

\* The (reportDate, Media) groups the INSERT ... SELECT of sync produces.
SourceGroups(src, s, e) ==
    { <<f.reportDate, f.Media>> : f \in {g \in src : InRange(g.reportDate, s, e)} }

\* One row of sync's INSERT ... SELECT.
SyncRow(src, d, m) ==
    [reportDate |-> d, Media |-> m,
     spend_original |-> SumSpend(src, d, m),
     spend_manual |-> 0,
     spend_final |-> SumSpend(src, d, m),
     is_locked |-> 0]

\* A delete that spares the unlocked rows carrying a manual correction.
SyncKeptSparingManual(t, s, e) ==
    [r \in {x \in DOMAIN t : ~(/\ InRange(x.reportDate, s, e)
                                /\ x.is_locked = 0
                                /\ x.spend_manual = 0)} |-> t[r]]

\* ALTER TABLE ... DELETE WHERE reportDate >= start AND reportDate <= end AND is_locked = 0:
\* the rows the delete keeps.
SyncKept(t, s, e) ==
    [r \in {x \in DOMAIN t : ~(InRange(x.reportDate, s, e) /\ x.is_locked = 0)} |-> t[r]]

\* The table after sync's delete and insert.
SyncResult(t, src, s, e) ==
    SyncKept(t, s, e) (+) SetToBag({SyncRow(src, g[1], g[2]) : g \in SourceGroups(src, s, e)})

\* POST /api/daily-report/sync
sync_data_from_performance(role, s, e, src) ==
    IF role \notin Writers THEN Reject(role, 403)
    ELSE IF ~(ValidDate(s) /\ ValidDate(e)) THEN Reject(role, 400)
    ELSE LET new == SyncResult(table, src, s, e)
         IN /\ BagCardinality(new) <= MaxRows
            /\ table' = new
            /\ resp' = Response(role, 200)
            /\ lastSync' = SyncDue(table, src, s, e)
            /\ UNCHANGED lockReq

\* The row update-spend inserts when the check query finds none (is_locked takes
\* the column's DEFAULT 0).
NewSpendRow(d, m, target) ==
    [reportDate |-> d, Media |-> m,
     spend_original |-> 0,
     spend_manual |-> target,
     spend_final |-> target,
     is_locked |-> 0]

\* ALTER TABLE ... UPDATE spend_manual = .., spend_final = .. WHERE reportDate = d AND Media = m,
\* with spend_manual computed from the spend_original of the first row read.
UpdatedSpendRow(r, d, m, target, first) ==
    IF r.reportDate = d /\ r.Media = m
    THEN [r EXCEPT !.spend_manual = target - first.spend_original,
                   !.spend_final = target]
    ELSE r

\* POST /api/daily-report/update-spend
update_spend(role, d, m, target) ==
    IF role \notin Writers THEN Reject(role, 403)
    ELSE IF ~ValidDate(d) THEN Reject(role, 400)
    ELSE LET existing_rows == {r \in DOMAIN table : r.reportDate = d /\ r.Media = m}
         IN /\ IF existing_rows = {}
               THEN /\ BagCardinality(table) < MaxRows
                    /\ table' = table (+) SetToBag({NewSpendRow(d, m, target)})
               \* the check query has no ORDER BY: any matching row may come first
               ELSE \E first \in existing_rows :
                        table' = BagOfAll(LAMBDA r : UpdatedSpendRow(r, d, m, target, first), table)
            /\ resp' = Response(role, 200)
            /\ lastSync' = NoSync
            /\ UNCHANGED lockReq

\* ALTER TABLE ... UPDATE is_locked = lock_value WHERE reportDate = d
LockedRow(r, d, lock) ==
    IF r.reportDate = d THEN [r EXCEPT !.is_locked = IF lock THEN 1 ELSE 0] ELSE r

\* POST /api/daily-report/lock-date
lock_date(role, d, lock) ==
    IF role \notin Writers THEN Reject(role, 403)
    ELSE IF ~ValidDate(d) THEN Reject(role, 400)
    ELSE /\ table' = BagOfAll(LAMBDA r : LockedRow(r, d, lock), table)
         /\ lockReq' = [lockReq EXCEPT ![d] = lock]
         /\ resp' = Response(role, 200)
         /\ lastSync' = NoSync

\* The variables of a state machine that is not running.
\* The Optional[str] a filter builder returns: None, or the SQL fragment as
\* the list of its LIKE conditions; Pending before the builder is called.
Pending == [kind |-> "pending", conditions |-> <<>>]
NoFilter == [kind |-> "None", conditions |-> <<>>]
FilterSql(conditions) == [kind |-> "sql", conditions |-> conditions]

PermIdle == permIn = None /\ permOut = Pending
HierIdle == hRows = <<>> /\ hTree = <<>> /\ hFamily = None /\ hPc = None /\ hI = 0

LedgerIdle ==
    /\ table = EmptyBag
    /\ resp = Response(None, 200)
    /\ lastSync = NoSync
    /\ lockReq = [d \in Dates |-> FALSE]

MergeIdle ==
    /\ cf_data = <<>> /\ mtg_data = <<>> /\ mtg_by_adset = <<>> /\ new_rows = <<>>
    /\ mergePc = None /\ mergeI = 0 /\ cf_in = <<>>

\* The process slots of cf_hourly_etl.py, and a slot no process has used.
PIDs == {1, 2}
NoProc == [pc |-> "none", by |-> None, start_dt |-> 0, end_dt |-> 0, data |-> {}]
NoRun == [pid |-> 0, before |-> EmptyBag]

EtlIdle ==
    /\ hourly_report = EmptyBag /\ etl = [p \in PIDs |-> NoProc] /\ utc_now = 0
    /\ latest_run = NoRun

DailyIdle ==
    /\ ch_table = EmptyBag /\ cf_run = None /\ ch_before = EmptyBag

SchedIdle ==
    /\ lock_holder = 0 /\ lock_file = 0 /\ worker = <<>>

TzIdle ==
    /\ tz_in = None /\ tz_out = None

PassIdle ==
    /\ pass1_data = <<>> /\ pass2_data = <<>> /\ pass2_lookup = <<>> /\ passPc = None /\ passI = 0 /\ pass1_in = <<>>

\* No update-spend request is between its two statements.
NoUpdate == [pc |-> "idle", role |-> None, date |-> None, media |-> None, target |-> 0,
             found |-> FALSE, spend_original |-> 0, synced |-> FALSE]

ConcIdle ==
    upd = NoUpdate

NoRequest == [pc |-> "idle", key |-> None, value |-> 0, floor |-> 0]
NoAnswer == [key |-> None, value |-> 0, floor |-> 0, hit |-> FALSE]

CacheIdle ==
    /\ wh_version = 0 /\ cache_etl = None /\ redis = <<>> /\ refresh_worker = <<>>
    /\ hourly_req = NoRequest /\ cleared_version = 0 /\ served = NoAnswer

NoRetryCfg == [max_attempts |-> 0, backoff_factor |-> 0, retry_status_codes |-> {}]
NoCall == [pc |-> "none", attempt |-> 0, outcomes |-> <<>>, sleeps |-> <<>>,
           result |-> [kind |-> "none", code |-> 0]]

RetryIdle ==
    /\ retry_cfg = NoRetryCfg /\ retry = NoCall

\* Every state machine but m is idle, and stays so.
Idle(m) ==
    /\ IF m \in {"ledger", "conc"} THEN TRUE ELSE LedgerIdle
    /\ IF m = "perm" THEN TRUE ELSE PermIdle
    /\ IF m = "hier" THEN TRUE ELSE HierIdle
    /\ IF m = "merge" THEN TRUE ELSE MergeIdle
    /\ IF m = "etl" THEN TRUE ELSE EtlIdle
    /\ IF m = "daily" THEN TRUE ELSE DailyIdle
    /\ IF m = "sched" THEN TRUE ELSE SchedIdle
    /\ IF m = "tz" THEN TRUE ELSE TzIdle
    /\ IF m = "pass" THEN TRUE ELSE PassIdle
    /\ IF m = "conc" THEN TRUE ELSE ConcIdle
    /\ IF m = "cache" THEN TRUE ELSE CacheIdle
    /\ IF m = "retry" THEN TRUE ELSE RetryIdle

Frame(m) ==
    /\ IF m \in {"ledger", "conc"} THEN TRUE ELSE UNCHANGED ledgerVars
    /\ IF m = "perm" THEN TRUE ELSE UNCHANGED permVars
    /\ IF m = "hier" THEN TRUE ELSE UNCHANGED hierVars
    /\ IF m = "merge" THEN TRUE ELSE UNCHANGED mergeVars
    /\ IF m = "etl" THEN TRUE ELSE UNCHANGED etlVars
    /\ IF m = "daily" THEN TRUE ELSE UNCHANGED dailyVars
    /\ IF m = "sched" THEN TRUE ELSE UNCHANGED schedVars
    /\ IF m = "tz" THEN TRUE ELSE UNCHANGED tzVars
    /\ IF m = "pass" THEN TRUE ELSE UNCHANGED passVars
    /\ IF m = "conc" THEN TRUE ELSE UNCHANGED concVars
    /\ IF m = "cache" THEN TRUE ELSE UNCHANGED cacheVars
    /\ IF m = "retry" THEN TRUE ELSE UNCHANGED retryVars

LedgerInit == LedgerIdle /\ Idle("ledger")

\* The requests that reach the daily-report router, in any order.
SyncStep ==
    /\ \E q \in SyncRequests : sync_data_from_performance(q[1], q[2], q[3], q[4])
    /\ Frame("ledger")

UpdateStep ==
    /\ \E q \in UpdateRequests : update_spend(q[1], q[2], q[3], q[4])
    /\ Frame("ledger")

LockStep ==
    /\ \E q \in LockRequests : lock_date(q[1], q[2], q[3])
    /\ Frame("ledger")

LedgerNext == SyncStep \/ UpdateStep \/ LockStep

Spec == LedgerInit /\ [][LedgerNext]_vars

-----------------------------------------------------------------------------
(* The permission-filter builders: shared/permissions.py and the routers *)

MaxKeywords == 2
Keywords == {"x", "y"}
KeywordLists == UNION {[1..n -> Keywords] : n \in 0..MaxKeywords}
Roles == {"admin", "ops", "ops02", "business", "viewer"}
Families == {"shared", "dashboard", "daily", "hourly"}

\* f"lower(<column>) LIKE lower('%{k}%')": one condition of the filter.
Like(column, k) == [column |-> column, keyword |-> k]

\* f"({' OR '.join(keyword_conditions)})": the filter is the disjunction of
\* one LIKE condition per keyword, on one column, in the keywords' order.
KeywordConditions(column, user_keywords) ==
    FilterSql([i \in DOMAIN user_keywords |-> Like(column, user_keywords[i])])

\* shared/permissions.py
build_permission_filter(user_role, user_keywords) ==
    IF user_role = "admin" \/ user_keywords = <<>> THEN NoFilter
    ELSE IF user_role = "ops" THEN KeywordConditions("Adset", user_keywords)
    ELSE IF user_role = "ops02" THEN KeywordConditions("Media", user_keywords)
    ELSE IF user_role = "business" THEN KeywordConditions("offer", user_keywords)
    ELSE NoFilter

\* routers/dashboard.py
dashboard_build_permission_filter(user_role, user_keywords) ==
    IF user_role = "admin" \/ user_keywords = <<>> THEN NoFilter
    ELSE IF user_role = "ops" THEN KeywordConditions("Adset", user_keywords)
    ELSE IF user_role = "ops02" THEN KeywordConditions("Media", user_keywords)
    ELSE IF user_role = "business" THEN KeywordConditions("offer", user_keywords)
    ELSE NoFilter

\* routers/daily_report.py
daily_build_permission_filter(user_role, user_keywords) ==
    IF user_role = "admin" \/ user_keywords = <<>> THEN NoFilter
    ELSE IF user_role = "ops" THEN KeywordConditions("Media", user_keywords)
    ELSE NoFilter

\* routers/hourly.py
hourly_build_permission_filter(user_role, user_keywords) ==
    IF user_role = "admin" \/ user_keywords = <<>> THEN NoFilter
    ELSE IF user_role = "ops" THEN KeywordConditions("Adset", user_keywords)
    ELSE IF user_role = "ops02" THEN KeywordConditions("Media", user_keywords)
    ELSE IF user_role = "business" THEN KeywordConditions("offer", user_keywords)
    ELSE NoFilter

\* A request of a report family carries the current user's role and keywords.
PermInit ==
    /\ permIn \in [family : Families, role : Roles, keywords : KeywordLists]
    /\ permOut = Pending
    /\ Idle("perm")

SharedBuild ==
    /\ permOut = Pending
    /\ permIn.family = "shared"
    /\ permOut' = build_permission_filter(permIn.role, permIn.keywords)
    /\ UNCHANGED permIn
    /\ Frame("perm")

DashboardBuild ==
    /\ permOut = Pending
    /\ permIn.family = "dashboard"
    /\ permOut' = dashboard_build_permission_filter(permIn.role, permIn.keywords)
    /\ UNCHANGED permIn
    /\ Frame("perm")

DailyBuild ==
    /\ permOut = Pending
    /\ permIn.family = "daily"
    /\ permOut' = daily_build_permission_filter(permIn.role, permIn.keywords)
    /\ UNCHANGED permIn
    /\ Frame("perm")

HourlyBuild ==
    /\ permOut = Pending
    /\ permIn.family = "hourly"
    /\ permOut' = hourly_build_permission_filter(permIn.role, permIn.keywords)
    /\ UNCHANGED permIn
    /\ Frame("perm")

PermNext == SharedBuild \/ DashboardBuild \/ DailyBuild \/ HourlyBuild

SpecPerm == PermInit /\ [][PermNext]_vars

-----------------------------------------------------------------------------
(* Derived metrics: database.py, routers/daily_report.py, routers/dashboard.py *)

\* Python's "x or 1" on a number.
Or1(x) == IF x = 0 THEN 1 ELSE x

\* The float n / d, kept as the pair of its operands.
Ratio(n, d) == <<n, d>>
RatioEq(a, b) == a[1] * b[2] = b[1] * a[2]

\* database.py format_row_for_frontend: the computed metrics of a flat row.
format_row_for_frontend(row) ==
    [impressions |-> row.impressions, clicks |-> row.clicks,
     conversions |-> row.conversions, spend |-> row.spend, revenue |-> row.revenue,
     ctr |-> Ratio(row.clicks, Or1(row.impressions)),
     cvr |-> Ratio(row.conversions, Or1(row.clicks)),
     roi |-> Ratio(row.revenue - row.spend, Or1(row.spend)),
     cpa |-> Ratio(row.spend, Or1(row.conversions))]

\* routers/daily_report.py _calculate_metrics
calculate_metrics(row) ==
    [ctr |-> Ratio(row.clicks, Or1(row.impressions)),
     cvr |-> Ratio(row.conversions, Or1(row.clicks)),
     roi |-> Ratio(row.revenue - row.spend, Or1(row.spend)),
     cpa |-> Ratio(row.spend, Or1(row.conversions)),
     profit |-> row.revenue - row.spend]

-----------------------------------------------------------------------------
(* The hierarchy builders: routers/dashboard.py, routers/daily_report.py *)

MaxHierRows == 2

\* The sums a grouped query returns for one group.
MetricUniverse ==
    { [impressions |-> 0, clicks |-> 0, conversions |-> 0, spend |-> 0,
       revenue |-> 0, m_imp |-> 0, m_clicks |-> 0, m_conv |-> 0],
      [impressions |-> 10, clicks |-> 0, conversions |-> 0, spend |-> 0,
       revenue |-> 5, m_imp |-> 4, m_clicks |-> 0, m_conv |-> 0],
      [impressions |-> 10, clicks |-> 2, conversions |-> 1, spend |-> 4,
       revenue |-> 6, m_imp |-> 4, m_clicks |-> 1, m_conv |-> 1] }

Counters == {"impressions", "clicks", "conversions", "spend", "revenue",
             "m_imp", "m_clicks", "m_conv"}

\* models/schemas.py DIMENSION_COLUMN_MAP, the entries of the dimensions used.
DIMENSION_COLUMN_MAP == [platform |-> "Media", sub_campaign_name |-> "Adset"]

\* The dimensions of the dashboard request, and those of the daily report.
dim_list == <<"platform", "sub_campaign_name">>
DailyDims == <<"date", "media">>

\* Dimension values the warehouse holds: names, empty strings and NULLs.
DashboardKeys == [Media : {"Google", ""}, Adset : {"Unknown", "", None}]
DailyKeys == [date_str : Dates, media : {"Google", "", "Unknown"}]

\* Media names in the order ClickHouse sorts them.
MediaRank(m) == CASE m = "" -> 1 [] m = "Google" -> 2 [] m = "Unknown" -> 3

\* A result row: the group's keys and its sums.
ResultRow(keys, sums) ==
    [c \in DOMAIN keys \cup DOMAIN sums |->
        IF c \in DOMAIN keys THEN keys[c] ELSE sums[c]]

DashboardRows == {ResultRow(k, m) : k \in DashboardKeys, m \in MetricUniverse}
DailyRows == {ResultRow(k, m) : k \in DailyKeys, m \in MetricUniverse}

RowLists(Rows) == UNION {[1..n -> Rows] : n \in 0..MaxHierRows}

\* GROUP BY <all dimension columns> ORDER BY revenue DESC
DashboardResults ==
    { rows \in RowLists(DashboardRows) :
        \A i, j \in DOMAIN rows : i < j =>
            /\ <<rows[i].Media, rows[i].Adset>> # <<rows[j].Media, rows[j].Adset>>
            /\ rows[i].revenue >= rows[j].revenue }

\* GROUP BY reportDate, Media ORDER BY reportDate DESC, Media
DailyResults ==
    { rows \in RowLists(DailyRows) :
        \A i, j \in DOMAIN rows : i < j =>
            \/ DayNo(rows[i].date_str) > DayNo(rows[j].date_str)
            \/ /\ rows[i].date_str = rows[j].date_str
               /\ MediaRank(rows[i].media) < MediaRank(rows[j].media) }

Zero == Ratio(0, 1)

\* dashboard.py fetch_hierarchy: the key of a row at one level.
LevelKey(row, dim) ==
    LET value == row[DIMENSION_COLUMN_MAP[dim]]
    IN IF value = "" \/ value = None THEN "Unknown" ELSE value

\* The keys from the root down to level k: the place of current_level[level_key].
LevelPath(row, k) == [i \in 1..k |-> LevelKey(row, dim_list[i])]

\* dashboard.py fetch_hierarchy, "Create new node with metrics".
NewNode(row, dim, is_last) ==
    [dimension |-> dim,
     children |-> IF is_last THEN None ELSE "dict",
     impressions |-> row.impressions, clicks |-> row.clicks,
     conversions |-> row.conversions, spend |-> row.spend, revenue |-> row.revenue,
     profit |-> row.revenue - row.spend,
     m_imp |-> row.m_imp, m_clicks |-> row.m_clicks, m_conv |-> row.m_conv,
     ctr |-> Ratio(row.clicks, Or1(row.impressions)),
     cvr |-> Ratio(row.conversions, Or1(row.clicks)),
     roi |-> IF row.spend > 0 THEN Ratio(row.revenue - row.spend, row.spend) ELSE Zero,
     cpa |-> Ratio(row.spend, Or1(row.conversions))]

\* dashboard.py fetch_hierarchy, "Node exists - accumulate metrics".
Accumulate(node, row) ==
    LET sums == [node EXCEPT
                    !.impressions = @ + row.impressions,
                    !.clicks = @ + row.clicks,
                    !.conversions = @ + row.conversions,
                    !.spend = @ + row.spend,
                    !.revenue = @ + row.revenue,
                    !.m_imp = @ + row.m_imp,
                    !.m_clicks = @ + row.m_clicks,
                    !.m_conv = @ + row.m_conv]
        imp == Or1(sums.impressions)
        clicks == Or1(sums.clicks)
        conversions == Or1(sums.conversions)
        spend == sums.spend
        revenue == sums.revenue
    IN [sums EXCEPT
           !.profit = sums.revenue - sums.spend,
           !.ctr = Ratio(clicks, imp),
           !.cvr = Ratio(conversions, clicks),
           !.roi = IF spend > 0 THEN Ratio(revenue - spend, spend) ELSE Zero,
           !.cpa = Ratio(spend, conversions)]

\* dashboard.py fetch_hierarchy: one turn of "for row in result.named_results()",
\* with its inner loop over the dimensions.  A node that is not at the last
\* level has a dict of children, so the walk always moves down one level.
FoldRow(tree, row) ==
    LET paths == {LevelPath(row, k) : k \in 1..Len(dim_list)}
    IN [p \in DOMAIN tree \cup paths |->
          IF p \notin paths THEN tree[p]
          ELSE IF p \in DOMAIN tree THEN Accumulate(tree[p], row)
          ELSE NewNode(row, dim_list[Len(p)], Len(p) = Len(dim_list))]

\* daily_report.py get_hierarchy: the date node as first created.
EmptyDateNode ==
    [dimension |-> "date", children |-> "dict",
     impressions |-> 0, clicks |-> 0, conversions |-> 0, spend |-> 0, revenue |-> 0,
     profit |-> 0, m_imp |-> 0, m_clicks |-> 0, m_conv |-> 0,
     ctr |-> Zero, cvr |-> Zero, roi |-> Zero, cpa |-> Zero]

\* daily_report.py get_hierarchy: the date-level sums after one more row.
AddToDateNode(node, row) ==
    [node EXCEPT
        !.impressions = @ + row.impressions,
        !.clicks = @ + row.clicks,
        !.conversions = @ + row.conversions,
        !.m_imp = @ + row.m_imp,
        !.m_clicks = @ + row.m_clicks,
        !.m_conv = @ + row.m_conv,
        !.spend = @ + row.spend,
        !.revenue = @ + row.revenue]

\* daily_report.py get_hierarchy: the media child built from one row.
MediaNode(row) ==
    LET metrics == calculate_metrics(row)
    IN [dimension |-> "media", children |-> "dict",
        impressions |-> row.impressions, clicks |-> row.clicks,
        conversions |-> row.conversions, spend |-> row.spend, revenue |-> row.revenue,
        profit |-> metrics.profit,
        m_imp |-> row.m_imp, m_clicks |-> row.m_clicks, m_conv |-> row.m_conv,
        ctr |-> metrics.ctr, cvr |-> metrics.cvr, roi |-> metrics.roi, cpa |-> metrics.cpa]

\* daily_report.py get_hierarchy: one turn of "for row in result.named_results()".
\* The media child is stored under the row's media value as it is.
DailyFoldOne(tree, row) ==
    LET date_path == <<row.date_str>>
        media_path == <<row.date_str, row.media>>
        date_node == IF date_path \in DOMAIN tree THEN tree[date_path] ELSE EmptyDateNode
    IN [p \in DOMAIN tree \cup {date_path, media_path} |->
          IF p = date_path THEN AddToDateNode(date_node, row)
          ELSE IF p = media_path THEN MediaNode(row)
          ELSE tree[p]]

\* daily_report.py get_hierarchy: "for date_str, date_node in hierarchy.items()".
DeriveDateNode(m) ==
    LET profit == m.revenue - m.spend
    IN [m EXCEPT
           !.profit = profit,
           !.ctr = Ratio(m.clicks, Or1(m.impressions)),
           !.cvr = Ratio(m.conversions, Or1(m.clicks)),
           !.roi = Ratio(profit, Or1(m.spend)),
           !.cpa = Ratio(m.spend, Or1(m.conversions))]

DeriveDateLevel(tree) ==
    [p \in DOMAIN tree |-> IF Len(p) = 1 THEN DeriveDateNode(tree[p]) ELSE tree[p]]

HierInit ==
    /\ hFamily \in {"dashboard", "daily"}
    /\ hRows \in DashboardResults \cup DailyResults
    /\ hFamily = "dashboard" => hRows \in DashboardResults
    /\ hFamily = "daily" => hRows \in DailyResults
    /\ hTree = <<>>
    /\ hPc = "fold"
    /\ hI = 0
    /\ Idle("hier")

DashboardFoldRow ==
    /\ hFamily = "dashboard" /\ hPc = "fold" /\ hI < Len(hRows)
    /\ hTree' = FoldRow(hTree, hRows[hI + 1])
    /\ hI' = hI + 1
    /\ UNCHANGED <<hRows, hFamily, hPc>>
    /\ Frame("hier")

DashboardReturn ==
    /\ hFamily = "dashboard" /\ hPc = "fold" /\ hI = Len(hRows)
    /\ hPc' = "done"
    /\ UNCHANGED <<hRows, hTree, hFamily, hI>>
    /\ Frame("hier")

DailyFoldRow ==
    /\ hFamily = "daily" /\ hPc = "fold" /\ hI < Len(hRows)
    /\ hTree' = DailyFoldOne(hTree, hRows[hI + 1])
    /\ hI' = hI + 1
    /\ UNCHANGED <<hRows, hFamily, hPc>>
    /\ Frame("hier")

DailyDeriveAndReturn ==
    /\ hFamily = "daily" /\ hPc = "fold" /\ hI = Len(hRows)
    /\ hTree' = DeriveDateLevel(hTree)
    /\ hPc' = "done"
    /\ UNCHANGED <<hRows, hFamily, hI>>
    /\ Frame("hier")

HierNext == DashboardFoldRow \/ DashboardReturn \/ DailyFoldRow \/ DailyDeriveAndReturn

SpecHier == HierInit /\ [][HierNext]_vars

-----------------------------------------------------------------------------
(* The MTG cost merge: clickflare_etl/cf_etl.py *)

MaxCf == 2
MaxMtg == 2

\* Strings whose letters matter are sequences of characters.
UpperCase == <<"A", "B", "C", "D", "E", "F", "G", "H", "I", "J", "K", "L", "M",
               "N", "O", "P", "Q", "R", "S", "T", "U", "V", "W", "X", "Y", "Z">>
LowerCase == <<"a", "b", "c", "d", "e", "f", "g", "h", "i", "j", "k", "l", "m",
               "n", "o", "p", "q", "r", "s", "t", "u", "v", "w", "x", "y", "z">>

\* str.lower()
LowerChar(ch) ==
    IF \E i \in DOMAIN UpperCase : UpperCase[i] = ch
    THEN LowerCase[CHOOSE i \in DOMAIN UpperCase : UpperCase[i] = ch]
    ELSE ch

Lower(str) == [i \in DOMAIN str |-> LowerChar(str[i])]

\* Python's "sub in str"
Contains(sub, str) ==
    \E k \in 0..(Len(str) - Len(sub)) :
        \A i \in DOMAIN sub : str[k + i] = sub[i]

Mintegral == <<"M", "i", "n", "t", "e", "g", "r", "a", "l">>
Hastraffic == <<"H", "a", "s", "t", "r", "a", "f", "f", "i", "c">>
XMINTEGRAL == <<"X", "M", "I", "N", "T", "E", "G", "R", "A", "L">>
Google == <<"G", "o", "o", "g", "l", "e">>

\* cf_etl.py __init__: the default of mtg.mtg_media_keywords
mtg_media_keywords == <<Mintegral, Hastraffic>>

\* cf_etl.py _is_special_media
is_special_media(media_name) ==
    IF media_name = <<>> THEN FALSE
    ELSE \E k \in DOMAIN mtg_media_keywords :
             Contains(Lower(mtg_media_keywords[k]), Lower(media_name))

\* int(round(n / d)) for n >= 0, d > 0: Python rounds halves to even.
RoundHalfEven(n, d) ==
    LET q == n \div d
        r2 == 2 * (n % d)
    IN IF r2 < d THEN q
       ELSE IF r2 > d THEN q + 1
       ELSE IF q % 2 = 0 THEN q ELSE q + 1

\* The fields of a transformed Clickflare row that the merge reads or writes.
CfRow(media, adset_id, impressions, spend) ==
    [dataSource |-> "Clickflare", Media |-> media, Adset |-> "", AdsetID |-> adset_id,
     impressions |-> impressions, spend |-> Ratio(spend, 1),
     m_imp |-> impressions, m_clicks |-> 1, m_conv |-> 0]

CfUniverse ==
    { CfRow(Mintegral, "a1", 1, 7), CfRow(XMINTEGRAL, "a1", 3, 7),
      CfRow(Mintegral, "a1", 0, 7), CfRow(Google, "a1", 2, 7),
      CfRow(Mintegral, "", 1, 7), CfRow(Google, "a2", 0, 7) }

\* _transform_mtg_row: a missing Offer Id becomes the AdsetID "0".
MtgRow(adset_id, spend, m_imp) ==
    [dataSource |-> "MTG", AdsetID |-> adset_id, Adset |-> "offer",
     spend |-> spend, m_imp |-> m_imp, m_clicks |-> 1, m_conv |-> 1]

MtgUniverse ==
    { MtgRow("a1", 4, 3), MtgRow("a1", 2, 2), MtgRow("a3", 5, 1), MtgRow("0", 1, 1) }

RECURSIVE AggregateMtg(_, _)
\* Step 1: mtg_by_adset after the first n rows of the MTG data.
AggregateMtg(rows, n) ==
    IF n = 0 THEN <<>>
    ELSE LET acc == AggregateMtg(rows, n - 1)
             mtg_row == rows[n]
             adset_id == mtg_row.AdsetID
         IN IF adset_id = "" \/ adset_id = "0" THEN acc
            ELSE IF \E k \in DOMAIN acc : acc[k].AdsetID = adset_id
            THEN [k \in DOMAIN acc |->
                    IF acc[k].AdsetID = adset_id
                    THEN [acc[k] EXCEPT !.spend = @ + mtg_row.spend,
                                        !.m_imp = @ + mtg_row.m_imp,
                                        !.m_clicks = @ + mtg_row.m_clicks,
                                        !.m_conv = @ + mtg_row.m_conv]
                    ELSE acc[k]]
            ELSE Append(acc, [AdsetID |-> adset_id, Adset |-> mtg_row.Adset,
                              spend |-> mtg_row.spend, m_imp |-> mtg_row.m_imp,
                              m_clicks |-> mtg_row.m_clicks, m_conv |-> mtg_row.m_conv])

\* Step 2: cf_lookup[adset_id], as the positions of the rows in cf_data.
CfLookup(rows, adset_id) == {i \in DOMAIN rows : rows[i].AdsetID = adset_id}

\* special_cf_rows, mutated to take every matching row.
SpecialCfRowsAnyMedia(rows, adset_id) == CfLookup(rows, adset_id)

\* special_cf_rows: the matching rows of a special media.
SpecialCfRows(rows, adset_id) ==
    {i \in CfLookup(rows, adset_id) : is_special_media(rows[i].Media)}

RECURSIVE SumImpressions(_, _)
SumImpressions(rows, S) ==
    IF S = {} THEN 0
    ELSE LET i == CHOOSE j \in S : TRUE
         IN rows[i].impressions + SumImpressions(rows, S \ {i})

\* total_cf_impressions, mutated to count every matching row.
TotalCfImpressionsOfKey(rows, adset_id) ==
    SumImpressions(rows, CfLookup(rows, adset_id))

\* total_cf_impressions = sum(r.get('impressions', 0) for r in special_cf_rows)
TotalCfImpressions(rows, adset_id) ==
    SumImpressions(rows, SpecialCfRows(rows, adset_id))

\* The row that replaces a special row: the even split, or the proportional one.
AllocatedRow(cf_row, mtg_agg, total_cf_impressions, count) ==
    IF total_cf_impressions = 0
    THEN [cf_row EXCEPT
            !.spend = Ratio(mtg_agg.spend, count),
            !.m_imp = RoundHalfEven(mtg_agg.m_imp, count),
            !.m_clicks = RoundHalfEven(mtg_agg.m_clicks, count),
            !.m_conv = RoundHalfEven(mtg_agg.m_conv, count)]
    ELSE [cf_row EXCEPT
            !.spend = Ratio(mtg_agg.spend * cf_row.impressions, total_cf_impressions),
            !.m_imp = RoundHalfEven(mtg_agg.m_imp * cf_row.impressions, total_cf_impressions),
            !.m_clicks = RoundHalfEven(mtg_agg.m_clicks * cf_row.impressions, total_cf_impressions),
            !.m_conv = RoundHalfEven(mtg_agg.m_conv * cf_row.impressions, total_cf_impressions)]

\* The MTG-only row created for an AdsetID without Clickflare rows.
MtgOnlyRow(mtg_agg) ==
    [dataSource |-> "MTG", Media |-> Mintegral, Adset |-> mtg_agg.Adset,
     AdsetID |-> mtg_agg.AdsetID, impressions |-> 0, spend |-> Ratio(mtg_agg.spend, 1),
     m_imp |-> mtg_agg.m_imp, m_clicks |-> mtg_agg.m_clicks, m_conv |-> mtg_agg.m_conv]

RowLists2(Rows, n) == UNION {[1..k -> Rows] : k \in 0..n}

MergeInit ==
    /\ cf_data \in RowLists2(CfUniverse, MaxCf)
    /\ cf_in = cf_data
    /\ mtg_data \in RowLists2(MtgUniverse, MaxMtg)
    /\ mtg_by_adset = <<>>
    /\ new_rows = <<>>
    /\ mergePc = "aggregate"
    /\ mergeI = 0
    /\ Idle("merge")

\* "if not mtg_data: return cf_data", else steps 1 and 2.
MergeAggregate ==
    /\ mergePc = "aggregate"
    /\ IF mtg_data = <<>>
       THEN mergePc' = "done" /\ UNCHANGED mtg_by_adset
       ELSE /\ mtg_by_adset' = AggregateMtg(mtg_data, Len(mtg_data))
            /\ mergePc' = "merge"
    /\ UNCHANGED <<cf_data, mtg_data, new_rows, mergeI, cf_in>>
    /\ Frame("merge")

\* Step 3: one turn of "for adset_id, mtg_agg in mtg_by_adset.items()".
MergeAdset ==
    /\ mergePc = "merge" /\ mergeI < Len(mtg_by_adset)
    /\ LET mtg_agg == mtg_by_adset[mergeI + 1]
           adset_id == mtg_agg.AdsetID
           special == SpecialCfRows(cf_data, adset_id)
           total == TotalCfImpressions(cf_data, adset_id)
       IN IF CfLookup(cf_data, adset_id) # {}
          THEN /\ cf_data' = [i \in DOMAIN cf_data |->
                                IF i \in special
                                THEN AllocatedRow(cf_data[i], mtg_agg, total, Cardinality(special))
                                ELSE cf_data[i]]
               /\ UNCHANGED new_rows
          ELSE /\ new_rows' = Append(new_rows, MtgOnlyRow(mtg_agg))
               /\ UNCHANGED cf_data
    /\ mergeI' = mergeI + 1
    /\ UNCHANGED <<mtg_data, mtg_by_adset, mergePc, cf_in>>
    /\ Frame("merge")

\* cf_data.extend(new_rows); return cf_data
MergeReturn ==
    /\ mergePc = "merge" /\ mergeI = Len(mtg_by_adset)
    /\ cf_data' = cf_data \o new_rows
    /\ mergePc' = "done"
    /\ UNCHANGED <<mtg_data, mtg_by_adset, new_rows, mergeI, cf_in>>
    /\ Frame("merge")

MergeNext == MergeAggregate \/ MergeAdset \/ MergeReturn

SpecMerge == MergeInit /\ [][MergeNext]_vars

-----------------------------------------------------------------------------
(* The hourly ETL: clickflare_etl/cf_hourly_etl.py and its four starters *)

\* Time is counted in half hours; an hour bucket (reportDate, reportHour) is
\* an even time.
MaxClock == 3
LookbackHours == 1

FloorHour(t) == t - (t % 2)
Buckets == {t \in 0..MaxClock : t % 2 = 0}
Visits == {1, 2}

\* run: start_dt_utc = (utc_now - 24 h) floored to the hour, end_dt_utc = utc_now.
WindowStart(now) == FloorHour(now - 2 * LookbackHours)
InWindow(ts, start_dt, end_dt) == ts >= start_dt /\ ts < end_dt

\* What the report API returns for a window: for every hour bucket of the
\* window at most one item; an item's dateTime may be unreadable.
RawItem(dateTime, uniqueVisits) == [dateTime |-> dateTime, uniqueVisits |-> uniqueVisits]
ApiResponses(start_dt, end_dt) ==
    LET hours == {t \in Buckets : InWindow(t, start_dt, end_dt)}
    IN  UNION { {{RawItem(IF h \in B THEN -1 ELSE h, f[h]) : h \in H} : f \in [H -> Visits]}
                : H \in SUBSET hours, B \in {{}, {0}} }

\* _transform_data: an item without a readable time is skipped, the others
\* become rows of timezone "UTC".
HourlyRow(ts, tz, impressions) == [ts |-> ts, timezone |-> tz, impressions |-> impressions]
TransformData(raw_data) ==
    {HourlyRow(item.dateTime, "UTC", item.uniqueVisits) : item \in {i \in raw_data : i.dateTime >= 0}}

\* _delete_existing_data: ALTER TABLE DELETE WHERE timezone = 'UTC' and the
\* row's timestamp is in [start, end).
DeletedByRun(r, start_dt, end_dt) == r.timezone = "UTC" /\ InWindow(r.ts, start_dt, end_dt)
DeleteExistingData(t, start_dt, end_dt) ==
    LET kept == {r \in BagToSet(t) : ~DeletedByRun(r, start_dt, end_dt)}
    IN  [r \in kept |-> t[r]]

\* The rows of a table that the delete of a run over [start, end) removes.
WindowRows(t, start_dt, end_dt) ==
    [r \in {x \in BagToSet(t) : DeletedByRun(x, start_dt, end_dt)} |-> t[r]]

\* _insert_data: the rows are appended.
InsertData(t, data) == t (+) SetToBag(data)

Running(proc) == proc.pc \in {"fetching", "transformed", "deleted"}
Free(proc) == ~Running(proc)
NewProc(by, now) ==
    [pc |-> "fetching", by |-> by, start_dt |-> WindowStart(now), end_dt |-> now, data |-> {}]
\* A process that has exited leaves its exit status behind.
Exited(status) == [NoProc EXCEPT !.pc = status]
\* The process table names the processes; a new one takes the first free slot.
FirstFree(procs) == CHOOSE p \in PIDs : Free(procs[p]) /\ \A q \in PIDs : Free(procs[q]) => p <= q

\* History: the run that process p starts now and the rows its window holds;
\* the record is kept until that process exits.
StartedRun(p, now) ==
    [pid |-> p, before |-> WindowRows(hourly_report, WindowStart(now), now)]
LatestAfterExit(p) == IF latest_run.pid = p THEN NoRun ELSE latest_run

\* run issues the delete after the fetch and the transform have returned.
CanDeleteBeforeFetch(proc) == proc.pc \in {"fetching", "transformed"}
CanDelete(proc) == proc.pc = "transformed"

\* The table before the first run: empty, or rows of an earlier run.
InitialTables ==
    {EmptyBag, SetToBag({HourlyRow(0, "UTC", 1)}), SetToBag({HourlyRow(0, "Asia/Shanghai", 1)}),
     SetToBag({HourlyRow(0, "UTC", 1), HourlyRow(2, "UTC", 1)})}

EtlInit ==
    /\ hourly_report \in InitialTables
    /\ etl = [p \in PIDs |-> NoProc]
    /\ utc_now = 2 * LookbackHours
    /\ latest_run = NoRun
    /\ Idle("etl")

EtlTick ==
    /\ utc_now < MaxClock
    /\ utc_now' = utc_now + 1
    /\ UNCHANGED <<hourly_report, etl, latest_run>>
    /\ Frame("etl")

\* hourly_etl_task: kill_old_hourly_etl_processes, then run_hourly_etl.
ScheduledStart ==
    /\ LET swept == [q \in PIDs |-> IF Running(etl[q]) THEN Exited("killed") ELSE etl[q]]
       IN  /\ etl' = [swept EXCEPT ![FirstFree(swept)] = NewProc("scheduled", utc_now)]
           /\ latest_run' = StartedRun(FirstFree(swept), utc_now)
    /\ UNCHANGED <<hourly_report, utc_now>>
    /\ Frame("etl")

\* POST /api/hourly/refresh: run_hourly_etl in a background task.
RefreshStart ==
    /\ \E p \in PIDs : Free(etl[p])
    /\ etl' = [etl EXCEPT ![FirstFree(etl)] = NewProc("refresh", utc_now)]
    /\ latest_run' = StartedRun(FirstFree(etl), utc_now)
    /\ UNCHANGED <<hourly_report, utc_now>>
    /\ Frame("etl")

\* POST /api/scheduler/trigger/hourly: subprocess.Popen of the script.
TriggerStart ==
    /\ \E p \in PIDs : Free(etl[p])
    /\ etl' = [etl EXCEPT ![FirstFree(etl)] = NewProc("trigger", utc_now)]
    /\ latest_run' = StartedRun(FirstFree(etl), utc_now)
    /\ UNCHANGED <<hourly_report, utc_now>>
    /\ Frame("etl")

\* POST /api/config/pull-data/hourly: asyncio.create_subprocess_exec of the script.
PullDataStart ==
    /\ \E p \in PIDs : Free(etl[p])
    /\ etl' = [etl EXCEPT ![FirstFree(etl)] = NewProc("pull-data", utc_now)]
    /\ latest_run' = StartedRun(FirstFree(etl), utc_now)
    /\ UNCHANGED <<hourly_report, utc_now>>
    /\ Frame("etl")

\* run_hourly_etl: subprocess.run(timeout=600) kills the child it waits for.
RunTimeout ==
    /\ \E p \in PIDs :
          /\ Running(etl[p])
          /\ etl[p].by \in {"scheduled", "refresh"}
          /\ etl' = [etl EXCEPT ![p] = Exited("killed")]
          /\ latest_run' = LatestAfterExit(p)
    /\ UNCHANGED <<hourly_report, utc_now>>
    /\ Frame("etl")

\* run, steps 1 and 2: _fetch_api_data returned, _transform_data applied.
FetchOk ==
    /\ \E p \in PIDs :
          /\ etl[p].pc = "fetching"
          /\ \E raw_data \in ApiResponses(etl[p].start_dt, etl[p].end_dt) :
                etl' = [etl EXCEPT ![p].pc = "transformed", ![p].data = TransformData(raw_data)]
    /\ UNCHANGED <<hourly_report, utc_now, latest_run>>
    /\ Frame("etl")

\* run, step 1: _fetch_api_data raised; run re-raises and main exits 1.
FetchRaises ==
    /\ \E p \in PIDs :
          /\ etl[p].pc = "fetching"
          /\ etl' = [etl EXCEPT ![p] = Exited("fetch failed")]
          /\ latest_run' = LatestAfterExit(p)
    /\ UNCHANGED <<hourly_report, utc_now>>
    /\ Frame("etl")

\* run, step 3.
DeleteStep ==
    /\ \E p \in PIDs :
          /\ CanDelete(etl[p])
          /\ hourly_report' = DeleteExistingData(hourly_report, etl[p].start_dt, etl[p].end_dt)
          /\ etl' = [etl EXCEPT ![p].pc = "deleted"]
    /\ UNCHANGED <<utc_now, latest_run>>
    /\ Frame("etl")

\* run, step 4, and the return.
InsertOk ==
    /\ \E p \in PIDs :
          /\ etl[p].pc = "deleted"
          /\ hourly_report' = InsertData(hourly_report, etl[p].data)
          /\ etl' = [etl EXCEPT ![p] = Exited("done")]
          /\ latest_run' = LatestAfterExit(p)
    /\ UNCHANGED utc_now
    /\ Frame("etl")

\* run, step 4: a batch failed three times; the batches before it are stored.
InsertRaises ==
    /\ \E p \in PIDs :
          /\ etl[p].pc = "deleted"
          /\ etl[p].data # {}
          /\ \E cut \in Buckets :
                hourly_report' = InsertData(hourly_report, {r \in etl[p].data : r.ts < cut})
          /\ etl' = [etl EXCEPT ![p] = Exited("insert failed")]
          /\ latest_run' = LatestAfterExit(p)
    /\ UNCHANGED utc_now
    /\ Frame("etl")

EtlNext ==
    \/ EtlTick
    \/ ScheduledStart
    \/ RefreshStart
    \/ TriggerStart
    \/ PullDataStart
    \/ RunTimeout
    \/ FetchOk
    \/ FetchRaises
    \/ DeleteStep
    \/ InsertOk
    \/ InsertRaises

SpecEtl == EtlInit /\ [][EtlNext]_vars

-----------------------------------------------------------------------------
(* The daily Clickflare ETL run: clickflare_etl/cf_etl.py *)

MaxAccounts == 1

ReportDates == {"2026-01-01", "2026-01-02"}
FactRow(reportDate, id) == [reportDate |-> reportDate, id |-> id]

\* The rows the report API can return for the report date; transform_row
\* returns None for a row without a readable date.
RawRow(id, date_ok) == [id |-> id, date_ok |-> date_ok]
RawUniverse == {RawRow("a", TRUE), RawRow("b", TRUE), RawRow("c", FALSE)}
TransformDaily(raw_data) == {r.id : r \in {x \in raw_data : x.date_ok}}

\* _merge_mtg_data_to_cf as far as the set of rows goes: rows of an AdsetID
\* that Clickflare does not report are added.
MergedWithMtg(data, all_mtg_data) == IF all_mtg_data THEN data \cup {"mtg"} ELSE data

\* delete_existing_data: ALTER TABLE DELETE WHERE reportDate = report_date;
\* an exception is logged and False returned.
DeleteDate(t, report_date, ok) ==
    IF ok THEN [r \in {x \in BagToSet(t) : x.reportDate # report_date} |-> t[r]] ELSE t
\* insert_data: one insert of all rows; an exception is logged and False returned.
InsertRows(t, report_date, data, ok) ==
    IF ok THEN t (+) SetToBag({FactRow(report_date, id) : id \in data}) ELSE t

\* _handle_timeout: nothing without partial data, else delete and insert.
HandleTimeout(t, report_date, partial_data, delete_ok, insert_ok) ==
    IF partial_data = {} THEN t
    ELSE InsertRows(DeleteDate(t, report_date, delete_ok), report_date, partial_data, insert_ok)

InitialFacts ==
    {SetToBag(S) : S \in SUBSET {FactRow("2026-01-01", "a"), FactRow("2026-01-01", "old"),
                                 FactRow("2026-01-02", "old")}}

Returned(run, ret) == [run EXCEPT !.pc = "returned", !.ret = ret]

DailyInit ==
    /\ ch_table \in InitialFacts
    /\ ch_before = ch_table
    /\ \E d \in ReportDates, n \in 0..MaxAccounts :
          cf_run = [pc |-> "connect", report_date |-> d, raw_data |-> {}, data |-> {},
                    accounts |-> n, all_mtg_data |-> FALSE, ret |-> None]
    /\ Idle("daily")

\* Step 1: connect_clickhouse returned False.
ConnectFails ==
    /\ cf_run.pc = "connect"
    /\ cf_run' = Returned(cf_run, "False")
    /\ UNCHANGED <<ch_table, ch_before>>
    /\ Frame("daily")

\* Steps 1 to 3: connected, extract_data returned (True, raw_data).
ExtractOk ==
    /\ cf_run.pc = "connect"
    /\ \E raw_data \in SUBSET RawUniverse :
          cf_run' = [cf_run EXCEPT !.pc = "pass1", !.raw_data = raw_data]
    /\ UNCHANGED <<ch_table, ch_before>>
    /\ Frame("daily")

\* Step 3: extract_data returned (False, []).
ExtractFails ==
    /\ cf_run.pc = "connect"
    /\ cf_run' = Returned(cf_run, "False")
    /\ UNCHANGED <<ch_table, ch_before>>
    /\ Frame("daily")

\* The timeout check after pass 1 or pass 2 fired: the rows fetched so far
\* are transformed and handed to _handle_timeout.
TimeoutAfterPass ==
    /\ cf_run.pc \in {"pass1", "pass2"}
    /\ \E delete_ok \in BOOLEAN, insert_ok \in BOOLEAN :
          ch_table' = HandleTimeout(ch_table, cf_run.report_date, TransformDaily(cf_run.raw_data),
                                    delete_ok, insert_ok)
    /\ cf_run' = Returned([cf_run EXCEPT !.data = TransformDaily(cf_run.raw_data)], "False")
    /\ UNCHANGED ch_before
    /\ Frame("daily")

\* No rows in pass 1: the run returns True without touching the table.
NoData ==
    /\ cf_run.pc = "pass1"
    /\ cf_run.raw_data = {}
    /\ cf_run' = Returned(cf_run, "True")
    /\ UNCHANGED <<ch_table, ch_before>>
    /\ Frame("daily")

\* Step 3.5: extract_data_pass2 returned, with or without success.
Pass2 ==
    /\ cf_run.pc = "pass1"
    /\ cf_run.raw_data # {}
    /\ cf_run' = [cf_run EXCEPT !.pc = "pass2"]
    /\ UNCHANGED <<ch_table, ch_before>>
    /\ Frame("daily")

\* Steps 3.6 and 4: merge_two_pass_data, transform_data; without a valid row
\* the run returns True.
TransformStep ==
    /\ cf_run.pc = "pass2"
    /\ LET transformed_data == TransformDaily(cf_run.raw_data)
       IN  cf_run' = IF transformed_data = {} THEN Returned(cf_run, "True")
                     ELSE [cf_run EXCEPT !.pc = "mtg", !.data = transformed_data]
    /\ UNCHANGED <<ch_table, ch_before>>
    /\ Frame("daily")

\* Step 4.5, one account: fetched or not, and the timeout check did not fire
\* (or the fetch raised, which skips the check).
MtgAccount ==
    /\ cf_run.pc = "mtg"
    /\ cf_run.accounts > 0
    /\ \E fetched \in BOOLEAN :
          cf_run' = [cf_run EXCEPT !.accounts = @ - 1, !.all_mtg_data = @ \/ fetched]
    /\ UNCHANGED <<ch_table, ch_before>>
    /\ Frame("daily")

\* Step 4.5, one account, and the timeout check after it fired.
MtgAccountTimeout ==
    /\ cf_run.pc = "mtg"
    /\ cf_run.accounts > 0
    /\ \E fetched \in BOOLEAN, delete_ok \in BOOLEAN, insert_ok \in BOOLEAN :
          LET transformed_data == MergedWithMtg(cf_run.data, cf_run.all_mtg_data \/ fetched)
          IN  /\ ch_table' = HandleTimeout(ch_table, cf_run.report_date, transformed_data,
                                           delete_ok, insert_ok)
              /\ cf_run' = Returned([cf_run EXCEPT !.data = transformed_data,
                                                   !.all_mtg_data = @ \/ fetched], "False")
    /\ UNCHANGED ch_before
    /\ Frame("daily")

\* Steps 4.5 (the merge after the loop) and 5: delete_existing_data, whose
\* result run does not look at.
DeleteDateStep ==
    /\ cf_run.pc = "mtg"
    /\ cf_run.accounts = 0
    /\ \E delete_ok \in BOOLEAN :
          ch_table' = DeleteDate(ch_table, cf_run.report_date, delete_ok)
    /\ cf_run' = [cf_run EXCEPT !.pc = "insert",
                                !.data = MergedWithMtg(cf_run.data, cf_run.all_mtg_data)]
    /\ UNCHANGED ch_before
    /\ Frame("daily")

\* Step 6: insert_data returned True, or False.
InsertStep ==
    /\ cf_run.pc = "insert"
    /\ \E insert_ok \in BOOLEAN :
          /\ ch_table' = InsertRows(ch_table, cf_run.report_date, cf_run.data, insert_ok)
          /\ cf_run' = Returned(cf_run, IF insert_ok THEN "True" ELSE "False")
    /\ UNCHANGED ch_before
    /\ Frame("daily")

\* An exception between the extraction and the delete: the outer except
\* logs it and returns False.
RunRaises ==
    /\ cf_run.pc \in {"pass1", "pass2", "mtg"}
    /\ cf_run' = Returned(cf_run, "False")
    /\ UNCHANGED <<ch_table, ch_before>>
    /\ Frame("daily")

DailyNext ==
    \/ ConnectFails
    \/ ExtractOk
    \/ ExtractFails
    \/ TimeoutAfterPass
    \/ NoData
    \/ Pass2
    \/ TransformStep
    \/ MtgAccount
    \/ MtgAccountTimeout
    \/ DeleteDateStep
    \/ InsertStep
    \/ RunRaises

SpecDaily == DailyInit /\ [][DailyNext]_vars

-----------------------------------------------------------------------------
(* The scheduler lock: api/tasks/scheduler.py *)

MaxWorkers == 3
Workers == 1..MaxWorkers
NoPid == 0

\* The ids of the jobs start_scheduler adds.
Jobs == {"offers_sync", "lander_urls_sync", "daily_report_sync", "hourly_etl_sync"}

\* A worker process: where it is in start_scheduler, whether it has the lock
\* file open (_scheduler_lock_fd), the jobs of its scheduler, scheduler.running.
NewWorker == [pc |-> "idle", fd |-> FALSE, jobs |-> {}, running |-> FALSE]

\* fcntl.lockf(fd, LOCK_EX | LOCK_NB): granted unless another process holds
\* a lock on the file.
LockGrantedToAll(holder, w) == TRUE
LockGranted(holder, w) == holder \in {NoPid, w}

SchedInit ==
    /\ lock_holder = NoPid
    /\ lock_file \in {NoPid} \cup Workers
    /\ worker = [w \in Workers |-> NewWorker]
    /\ Idle("sched")

\* _acquire_scheduler_lock: open(_SCHEDULER_LOCK_FILE, 'w') truncates the file.
OpenLockFile ==
    /\ \E w \in Workers :
          /\ worker[w].pc = "idle"
          /\ worker' = [worker EXCEPT ![w].pc = "opened", ![w].fd = TRUE]
    /\ lock_file' = NoPid
    /\ UNCHANGED lock_holder
    /\ Frame("sched")

\* _acquire_scheduler_lock: lockf succeeded, the pid is written.
LockAcquired ==
    /\ \E w \in Workers :
          /\ worker[w].pc = "opened"
          /\ LockGranted(lock_holder, w)
          /\ lock_holder' = w
          /\ lock_file' = w
          /\ worker' = [worker EXCEPT ![w].pc = "locked"]
    /\ Frame("sched")

\* _acquire_scheduler_lock: lockf raised; start_scheduler returns.
LockRefused ==
    /\ \E w \in Workers :
          /\ worker[w].pc = "opened"
          /\ ~LockGranted(lock_holder, w)
          /\ worker' = [worker EXCEPT ![w].pc = "skipped", ![w].fd = FALSE]
    /\ UNCHANGED <<lock_holder, lock_file>>
    /\ Frame("sched")

\* start_scheduler: the four add_job calls and scheduler.start().
SchedulerStarted ==
    /\ \E w \in Workers :
          /\ worker[w].pc = "locked"
          /\ worker' = [worker EXCEPT ![w].pc = "started", ![w].jobs = Jobs, ![w].running = TRUE]
    /\ UNCHANGED <<lock_holder, lock_file>>
    /\ Frame("sched")

\* start_scheduler: add_job or start raised after some jobs were added; the
\* lock is released and the exception re-raised.
StartRaises ==
    /\ \E w \in Workers :
          /\ worker[w].pc = "locked"
          /\ \E added \in {{}, {"offers_sync"}, Jobs} :
                worker' = [worker EXCEPT ![w].pc = "failed", ![w].jobs = added, ![w].fd = FALSE]
    /\ lock_holder' = NoPid
    /\ UNCHANGED lock_file
    /\ Frame("sched")

\* stop_scheduler: shutdown if running, then _release_scheduler_lock.
StopScheduler ==
    /\ \E w \in Workers :
          /\ worker[w].pc \in {"started", "skipped"}
          /\ worker' = [worker EXCEPT ![w].pc = "stopped", ![w].running = FALSE, ![w].fd = FALSE]
          /\ lock_holder' = IF worker[w].fd THEN NoPid ELSE lock_holder
    /\ UNCHANGED lock_file
    /\ Frame("sched")

\* A worker that has exited is replaced by a new process.
WorkerRestart ==
    /\ \E w \in Workers :
          /\ worker[w].pc \in {"stopped", "failed"}
          /\ worker' = [worker EXCEPT ![w] = NewWorker]
    /\ UNCHANGED <<lock_holder, lock_file>>
    /\ Frame("sched")

SchedNext ==
    \/ OpenLockFile
    \/ LockAcquired
    \/ LockRefused
    \/ SchedulerStarted
    \/ StartRaises
    \/ StopScheduler
    \/ WorkerRestart

SpecSched == SchedInit /\ [][SchedNext]_vars

-----------------------------------------------------------------------------
(* The hourly query's time zone arithmetic: routers/hourly.py *)

MaxDay == 2

\* Time is counted in seconds; a date is its day number.
Hour == 3600
Day == 24 * Hour
TargetDates == 1..MaxDay
BucketTs == {h * Hour : h \in 0..((MaxDay + 2) * 24 - 1)}

\* TIMEZONE_OFFSETS (UTC, Asia/Shanghai, EST, PST), and the offsets the hour
\* arithmetic is applied to (5 is not in the table).
TIMEZONE_OFFSETS == {0, 8, -5, -8}
HourOffsets == TIMEZONE_OFFSETS \cup {5}
NowValues == {Day + 10 * Hour + 1800, 2 * Day + 20 * Hour, (MaxDay + 2) * Day}

\* The date of an instant, datetime.date().
DateOf(t) == t \div Day

\* Python's % and ClickHouse's modulo (the sign of the dividend).
PyMod(a, b) == a % b
ChMod(a, b) == IF a >= 0 THEN a % b ELSE 0 - ((0 - a) % b)

\* fetch_data: the UTC range queried for the selected date.
UtcStart(target_date, tz_offset) == target_date * Day + tz_offset * Hour
UtcDayEnd(target_date, tz_offset) == target_date * Day + Day - 1 + tz_offset * Hour
IsToday(target_date, tz_offset, now) == target_date = DateOf(now + tz_offset * Hour)
UtcEnd(target_date, tz_offset, now) ==
    IF IsToday(target_date, tz_offset, now) THEN now ELSE UtcDayEnd(target_date, tz_offset)
\* timestamp_filter: timestamp >= start AND timestamp < end.
SelectedBuckets(start, end) == {b \in BucketTs : b >= start /\ b < end}

\* The hour filter (local hour to UTC hour) and the group expression (UTC
\* hour to local hour).
UtcHourFilter(hour_val, tz_offset) == PyMod(hour_val - tz_offset + 24, 24)
GroupExprNoWrap(reportHour, tz_offset) == ChMod(reportHour + tz_offset, 24)
GroupExpr(reportHour, tz_offset) == ChMod(reportHour + tz_offset + 24, 24)

NoHour == 0 - 1

TzInit ==
    /\ tz_in \in [target_date : TargetDates, tz_offset : HourOffsets, hour_val : 0..23, utc_now : NowValues]
    /\ tz_out = [pc |-> "request", utc_start |-> 0, utc_end |-> 0, buckets |-> {},
                 utc_hour |-> NoHour, group_hour |-> NoHour]
    /\ Idle("tz")

\* fetch_data: utc_start_dt, utc_end_dt and the timestamp filter.
TimestampFilter ==
    /\ tz_out.pc = "request"
    /\ LET start == UtcStart(tz_in.target_date, tz_in.tz_offset)
           end == UtcEnd(tz_in.target_date, tz_in.tz_offset, tz_in.utc_now)
       IN  tz_out' = [tz_out EXCEPT !.pc = "window", !.utc_start = start, !.utc_end = end,
                                    !.buckets = SelectedBuckets(start, end)]
    /\ UNCHANGED tz_in
    /\ Frame("tz")

\* fetch_data: the filter on the hour dimension.
HourFilter ==
    /\ tz_out.pc = "window"
    /\ tz_out' = [tz_out EXCEPT !.pc = "filter", !.utc_hour = UtcHourFilter(tz_in.hour_val, tz_in.tz_offset)]
    /\ UNCHANGED tz_in
    /\ Frame("tz")

\* fetch_data: the group expression, applied to the rows of the filtered hour.
GroupByHour ==
    /\ tz_out.pc = "filter"
    /\ tz_out' = [tz_out EXCEPT !.pc = "grouped", !.group_hour = GroupExpr(tz_out.utc_hour, tz_in.tz_offset)]
    /\ UNCHANGED tz_in
    /\ Frame("tz")

TzNext ==
    \/ TimestampFilter
    \/ HourFilter
    \/ GroupByHour

SpecTz == TzInit /\ [][TzNext]_vars

-----------------------------------------------------------------------------
(* The two-pass merge: clickflare_etl/cf_etl.py merge_two_pass_data *)

MaxPass1 == 2
MaxPass2 == 2

\* Field values are strings, written as sequences of characters.
Str_a == <<"a">>
Str_a_bar == <<"a", "|">>
Str_bar == <<"|">>
Str_empty == <<>>
Bar == <<"|">>

\* A raw API row: the nine key fields, the landing fields and another field.
RawPassRow(trackingField1, trackingField2, landingID, landingName, cost) ==
    [date |-> <<"d">>, trafficSourceID |-> <<"t">>, offerID |-> <<"o">>,
     trackingField1 |-> trackingField1, trackingField2 |-> trackingField2,
     trackingField3 |-> Str_empty, trackingField4 |-> Str_empty,
     trackingField5 |-> <<"5">>, trackingField6 |-> <<"6">>,
     landingID |-> landingID, landingName |-> landingName, cost |-> cost]

Pass1Universe ==
    {RawPassRow(Str_a, Str_empty, "stale", "stale", 1),
     RawPassRow(Str_a, Str_bar, "stale", "stale", 2),
     RawPassRow(Str_a_bar, Str_empty, "stale", "stale", 3)}
Pass2Universe ==
    {RawPassRow(Str_a, Str_empty, "L1", "one", 0),
     RawPassRow(Str_a, Str_empty, "L2", "two", 0),
     RawPassRow(Str_a, Str_bar, "L3", "three", 0),
     RawPassRow(Str_a_bar, Str_empty, "L4", "four", 0)}

\* _make_merge_key: the nine fields joined by "|".
make_merge_key(row) ==
    row.date \o Bar \o row.trafficSourceID \o Bar \o row.offerID \o Bar \o
    row.trackingField1 \o Bar \o row.trackingField2 \o Bar \o row.trackingField3 \o Bar \o
    row.trackingField4 \o Bar \o row.trackingField5 \o Bar \o row.trackingField6

\* pass2_lookup as a list of entries in insertion order; key in pass2_lookup.
LookupHas(lookup, key) == \E j \in 1..Len(lookup) : lookup[j].key = key
LookupGet(lookup, row) ==
    lookup[CHOOSE j \in 1..Len(lookup) : lookup[j].key = make_merge_key(row)]

PassRowLists(Rows, n) == UNION {[1..k -> Rows] : k \in 0..n}

PassInit ==
    /\ pass1_data \in PassRowLists(Pass1Universe, MaxPass1)
    /\ pass2_data \in PassRowLists(Pass2Universe, MaxPass2)
    /\ pass1_in = pass1_data
    /\ pass2_lookup = <<>>
    /\ passPc = "lookup"
    /\ passI = 0
    /\ Idle("pass")

\* An early return that would reset the landing fields as the merge loop does.
PassEarlyReturnClearing ==
    /\ passPc = "lookup"
    /\ pass2_data = <<>>
    /\ passPc' = "done"
    /\ pass1_data' = [i \in 1..Len(pass1_data) |->
                         [pass1_data[i] EXCEPT !.landingID = "", !.landingName = ""]]
    /\ UNCHANGED <<pass2_data, pass2_lookup, passI, pass1_in>>
    /\ Frame("pass")

\* if not pass2_data: return pass1_data.
PassEarlyReturn ==
    /\ passPc = "lookup"
    /\ pass2_data = <<>>
    /\ passPc' = "done"
    /\ UNCHANGED <<pass1_data, pass2_data, pass2_lookup, passI, pass1_in>>
    /\ Frame("pass")

\* One iteration of the loop over pass2_data.
PassLookupRow ==
    /\ passPc = "lookup"
    /\ passI < Len(pass2_data)
    /\ LET row == pass2_data[passI + 1]
           key == make_merge_key(row)
       IN  pass2_lookup' =
              IF LookupHas(pass2_lookup, key) THEN pass2_lookup
              ELSE Append(pass2_lookup, [key |-> key,
                                         landingID |-> row.landingID, landingName |-> row.landingName])
    /\ passI' = passI + 1
    /\ UNCHANGED <<pass1_data, pass2_data, passPc, pass1_in>>
    /\ Frame("pass")

\* The lookup is built: the loop over pass1_data starts.
PassLookupBuilt ==
    /\ passPc = "lookup"
    /\ pass2_data # <<>>
    /\ passI = Len(pass2_data)
    /\ passPc' = "merge"
    /\ passI' = 0
    /\ UNCHANGED <<pass1_data, pass2_data, pass2_lookup, pass1_in>>
    /\ Frame("pass")

\* One iteration of the loop over pass1_data.
PassMergeRow ==
    /\ passPc = "merge"
    /\ passI < Len(pass1_data)
    /\ LET row == pass1_data[passI + 1]
           key == make_merge_key(row)
       IN  pass1_data' =
              [pass1_data EXCEPT ![passI + 1] =
                 IF LookupHas(pass2_lookup, key)
                 THEN [row EXCEPT !.landingID = LookupGet(pass2_lookup, row).landingID,
                                  !.landingName = LookupGet(pass2_lookup, row).landingName]
                 ELSE [row EXCEPT !.landingID = "", !.landingName = ""]]
    /\ passI' = passI + 1
    /\ UNCHANGED <<pass2_data, pass2_lookup, passPc, pass1_in>>
    /\ Frame("pass")

\* return pass1_data.
PassReturn ==
    /\ passPc = "merge"
    /\ passI = Len(pass1_data)
    /\ passPc' = "done"
    /\ UNCHANGED <<pass1_data, pass2_data, pass2_lookup, passI, pass1_in>>
    /\ Frame("pass")

PassNext ==
    \/ PassEarlyReturn
    \/ PassLookupRow
    \/ PassLookupBuilt
    \/ PassMergeRow
    \/ PassReturn

SpecPass == PassInit /\ [][PassNext]_vars

-----------------------------------------------------------------------------
(* update-spend interleaved with sync: routers/daily_report.py.  The server
   runs several worker processes (tasks/scheduler.py takes a file lock for
   that reason); each statement of a handler is one round trip to ClickHouse
   and nothing serialises the requests of two workers. *)

\* update_spend up to its check query: what the handler holds afterwards.
\* 'synced' is history: a sync has rewritten the pair since the check query.
CheckedUpdate(role, d, m, target, first_rows) ==
    [pc |-> "checked", role |-> role, date |-> d, media |-> m, target |-> target,
     found |-> first_rows # {},
     spend_original |-> IF first_rows = {} THEN 0
                        ELSE (CHOOSE r \in first_rows : TRUE).spend_original,
     synced |-> FALSE]

\* ALTER TABLE ... UPDATE spend_manual = {new_spend_manual}, spend_final =
\* {new_spend_final}: both are literals computed from the check query's row.
UpdateFromCheckedRow(r, u) ==
    IF r.reportDate = u.date /\ r.Media = u.media
    THEN [r EXCEPT !.spend_manual = u.target - u.spend_original,
                   !.spend_final = u.target]
    ELSE r

ConcInit ==
    /\ LedgerIdle
    /\ upd = NoUpdate
    /\ Idle("conc")

\* A whole sync request, its delete and its insert, at any moment.
ConcSync ==
    /\ \E q \in SyncRequests :
          /\ sync_data_from_performance(q[1], q[2], q[3], q[4])
          /\ upd' = IF /\ upd.pc = "checked"
                       /\ q[1] \in Writers /\ ValidDate(q[2]) /\ ValidDate(q[3])
                       /\ InRange(upd.date, q[2], q[3])
                    THEN [upd EXCEPT !.synced = TRUE]
                    ELSE upd
    /\ Frame("conc")

\* update_spend: the role and date checks and the check query.
ConcUpdateCheck ==
    /\ upd.pc = "idle"
    /\ \E q \in UpdateRequests :
          /\ q[1] \in Writers
          /\ ValidDate(q[2])
          /\ LET existing_rows == {r \in DOMAIN table : r.reportDate = q[2] /\ r.Media = q[3]}
             IN  \* the check query has no ORDER BY: any matching row may come first
                 \E first \in (IF existing_rows = {} THEN {{}} ELSE {{r} : r \in existing_rows}) :
                    upd' = CheckedUpdate(q[1], q[2], q[3], q[4], first)
    /\ UNCHANGED ledgerVars
    /\ Frame("conc")

\* update_spend: the insert or the update chosen by the check query.
ConcUpdateWrite ==
    /\ upd.pc = "checked"
    /\ IF upd.found
       THEN table' = BagOfAll(LAMBDA r : UpdateFromCheckedRow(r, upd), table)
       ELSE /\ BagCardinality(table) < MaxRows
            /\ table' = table (+) SetToBag({NewSpendRow(upd.date, upd.media, upd.target)})
    /\ resp' = Response(upd.role, 200)
    /\ lastSync' = NoSync
    /\ upd' = NoUpdate
    /\ UNCHANGED lockReq
    /\ Frame("conc")

ConcNext == ConcSync \/ ConcUpdateCheck \/ ConcUpdateWrite

SpecConc == ConcInit /\ [][ConcNext]_vars

-----------------------------------------------------------------------------
(* The hourly cache: api/cache.py, routers/hourly.py get_hourly_data and
   tasks/scheduler.py hourly_etl_task.  The data of the warehouse is named by
   the number of ETL runs that have written it. *)

MaxEtlRuns == 1

\* cache_key("hourly", start_date, end_date, dimensions, ...): two requests.
CacheKeys == {"hourly:a", "hourly:b"}

\* An entry of the cache: the value stored and the state of its TTL, "long"
\* (more than refresh_before_expiry left), "short" or "none" (no entry).
NoEntry == [value |-> 0, ttl |-> "none"]
\* set_cache: client.setex(key, ttl, serialized)
SetCache(entries, key, value) == [entries EXCEPT ![key] = [value |-> value, ttl |-> "long"]]

\* delete_cache("hourly:*"): client.keys(pattern), client.delete(*keys).
DeleteCache(entries) == [k \in DOMAIN entries |-> NoEntry]

\* _should_refresh: 0 <= ttl <= _refresh_before_expiry
ShouldRefresh(entry) == entry.ttl = "short"

NoWorker == [pc |-> "none", value |-> 0]

CacheInit ==
    /\ wh_version = 0
    /\ cache_etl = "idle"
    /\ redis = [k \in CacheKeys |-> NoEntry]
    /\ refresh_worker = [k \in CacheKeys |-> NoWorker]
    /\ hourly_req = NoRequest
    /\ cleared_version = 0
    /\ served = NoAnswer
    /\ Idle("cache")

\* hourly_etl_task: run_hourly_etl returned True, the warehouse holds the run's rows.
HourlyEtlSucceeds ==
    /\ cache_etl = "idle"
    /\ wh_version < MaxEtlRuns
    /\ wh_version' = wh_version + 1
    /\ cache_etl' = "ran"
    /\ UNCHANGED <<redis, refresh_worker, hourly_req, cleared_version, served>>
    /\ Frame("cache")

\* hourly_etl_task: if success: delete_cache("hourly:*").
HourlyEtlClearsCache ==
    /\ cache_etl = "ran"
    /\ redis' = DeleteCache(redis)
    /\ cleared_version' = wh_version
    /\ cache_etl' = "idle"
    /\ UNCHANGED <<wh_version, refresh_worker, hourly_req, served>>
    /\ Frame("cache")

\* The TTL of an entry runs down, and the entry expires.
TtlRunsDown ==
    /\ \E k \in CacheKeys :
          /\ redis[k].ttl # "none"
          /\ redis' = [redis EXCEPT ![k] = IF @.ttl = "long" THEN [@ EXCEPT !.ttl = "short"]
                                           ELSE NoEntry]
    /\ UNCHANGED <<wh_version, cache_etl, refresh_worker, hourly_req, cleared_version, served>>
    /\ Frame("cache")

\* get_hourly_data: get_cache finds a value and the handler returns it; near
\* expiry get_cache has started a refresh thread (one per key at a time here).
RequestHit ==
    /\ hourly_req.pc = "idle"
    /\ \E k \in CacheKeys :
          /\ redis[k].ttl # "none"
          /\ served' = [key |-> k, value |-> redis[k].value, floor |-> cleared_version,
                        hit |-> TRUE]
          /\ refresh_worker' =
                IF ShouldRefresh(redis[k]) /\ refresh_worker[k].pc = "none"
                THEN [refresh_worker EXCEPT ![k] = [pc |-> "started", value |-> 0]]
                ELSE refresh_worker
    /\ UNCHANGED <<wh_version, cache_etl, redis, hourly_req, cleared_version>>
    /\ Frame("cache")

\* get_hourly_data: get_cache returns None.
RequestMiss ==
    /\ hourly_req.pc = "idle"
    /\ \E k \in CacheKeys :
          /\ redis[k].ttl = "none"
          /\ hourly_req' = [pc |-> "miss", key |-> k, value |-> 0, floor |-> cleared_version]
    /\ UNCHANGED <<wh_version, cache_etl, redis, refresh_worker, cleared_version, served>>
    /\ Frame("cache")

\* get_hourly_data: response_data = fetch_data()
RequestFetch ==
    /\ hourly_req.pc = "miss"
    /\ hourly_req' = [hourly_req EXCEPT !.pc = "fetched", !.value = wh_version]
    /\ UNCHANGED <<wh_version, cache_etl, redis, refresh_worker, cleared_version, served>>
    /\ Frame("cache")

\* get_hourly_data: set_cache(cache_key_val, response_data); return.
RequestSetCache ==
    /\ hourly_req.pc = "fetched"
    /\ redis' = SetCache(redis, hourly_req.key, hourly_req.value)
    /\ served' = [key |-> hourly_req.key, value |-> hourly_req.value,
                  floor |-> hourly_req.floor, hit |-> FALSE]
    /\ hourly_req' = NoRequest
    /\ UNCHANGED <<wh_version, cache_etl, refresh_worker, cleared_version>>
    /\ Frame("cache")

\* refresh_worker: new_value = refresher()
RefreshFetch ==
    /\ \E k \in CacheKeys :
          /\ refresh_worker[k].pc = "started"
          /\ refresh_worker' = [refresh_worker EXCEPT ![k] = [pc |-> "fetched", value |-> wh_version]]
    /\ UNCHANGED <<wh_version, cache_etl, redis, hourly_req, cleared_version, served>>
    /\ Frame("cache")

\* refresh_worker: set_cache(key, new_value, ttl)
RefreshSetCache ==
    /\ \E k \in CacheKeys :
          /\ refresh_worker[k].pc = "fetched"
          /\ redis' = SetCache(redis, k, refresh_worker[k].value)
          /\ refresh_worker' = [refresh_worker EXCEPT ![k] = NoWorker]
    /\ UNCHANGED <<wh_version, cache_etl, hourly_req, cleared_version, served>>
    /\ Frame("cache")

\* refresh_worker: the refresher raised; the thread logs and ends.
RefreshFails ==
    /\ \E k \in CacheKeys :
          /\ refresh_worker[k].pc = "started"
          /\ refresh_worker' = [refresh_worker EXCEPT ![k] = NoWorker]
    /\ UNCHANGED <<wh_version, cache_etl, redis, hourly_req, cleared_version, served>>
    /\ Frame("cache")

CacheNext ==
    \/ HourlyEtlSucceeds
    \/ HourlyEtlClearsCache
    \/ TtlRunsDown
    \/ RequestHit
    \/ RequestMiss
    \/ RequestFetch
    \/ RequestSetCache
    \/ RefreshFetch
    \/ RefreshSetCache
    \/ RefreshFails

SpecCache == CacheInit /\ [][CacheNext]_vars

-----------------------------------------------------------------------------
(* The report request with retries: clickflare_etl/cf_api.py and
   cf_offers_api.py, _do_request_with_retry (the two differ in POST and GET
   only). *)

MaxAttempts == 3

\* config["retry"]: the values the client is built with.
RetryConfigs ==
    [max_attempts : 1..MaxAttempts, backoff_factor : {2, 3},
     retry_status_codes : {{429, 503}}]

\* What one session.post(url, json=data, timeout=60) ends with.
StatusCodes == {200, 404, 429, 503}
Outcome(kind, code) == [kind |-> kind, code |-> code]
Responded(code) == Outcome("response", code)
TimedOut == Outcome("timeout", 0)
RequestFailed == Outcome("error", 0)

RECURSIVE Power(_, _)
\* backoff_factor ** attempt
Power(b, n) == IF n = 0 THEN 1 ELSE b * Power(b, n - 1)

\* A test that would retry every status but 200.
IsRetryStatusAny(code) == code # 200
\* response.status_code in self.retry_status_codes
IsRetryStatus(code) == code \in retry_cfg.retry_status_codes

\* attempt < self.max_attempts, for the attempt being made
AttemptsRemain == retry.attempt + 1 < retry_cfg.max_attempts

\* The loop makes its next attempt.
InLoop == retry.pc = "loop" /\ retry.attempt < retry_cfg.max_attempts

\* The call after an attempt that ended with o: time.sleep(backoff_factor **
\* attempt) and continue.
SleepAndContinue(o) ==
    [retry EXCEPT !.attempt = @ + 1,
                  !.outcomes = Append(@, o),
                  !.sleeps = Append(@, Power(retry_cfg.backoff_factor, retry.attempt + 1))]

\* The call after an attempt that ended with o and is not followed by a sleep.
NextIteration(o) ==
    [retry EXCEPT !.attempt = @ + 1, !.outcomes = Append(@, o)]

\* return response
ReturnResponse(code) ==
    [retry EXCEPT !.attempt = @ + 1, !.outcomes = Append(@, Responded(code)),
                  !.pc = "returned", !.result = Responded(code)]

RetryInit ==
    /\ retry_cfg \in RetryConfigs
    /\ retry = [NoCall EXCEPT !.pc = "loop"]
    /\ Idle("retry")

\* if response.status_code == 200: return response
PostReturns200 ==
    /\ InLoop
    /\ retry' = ReturnResponse(200)
    /\ UNCHANGED retry_cfg
    /\ Frame("retry")

\* A status of retry_status_codes: sleep and continue while attempts remain,
\* else fall through to 'return response'.
PostReturnsRetryStatus ==
    /\ InLoop
    /\ \E code \in StatusCodes \ {200} :
          /\ IsRetryStatus(code)
          /\ retry' = IF AttemptsRemain THEN SleepAndContinue(Responded(code))
                      ELSE ReturnResponse(code)
    /\ UNCHANGED retry_cfg
    /\ Frame("retry")

\* Non-retryable error: return response
PostReturnsOtherStatus ==
    /\ InLoop
    /\ \E code \in StatusCodes \ {200} :
          /\ ~IsRetryStatus(code)
          /\ retry' = ReturnResponse(code)
    /\ UNCHANGED retry_cfg
    /\ Frame("retry")

\* except requests.exceptions.Timeout
PostTimesOut ==
    /\ InLoop
    /\ retry' = IF AttemptsRemain THEN SleepAndContinue(TimedOut) ELSE NextIteration(TimedOut)
    /\ UNCHANGED retry_cfg
    /\ Frame("retry")

\* except requests.exceptions.RequestException
PostRaises ==
    /\ InLoop
    /\ retry' = IF AttemptsRemain THEN SleepAndContinue(RequestFailed)
                ELSE NextIteration(RequestFailed)
    /\ UNCHANGED retry_cfg
    /\ Frame("retry")

\* The loop is over: return None
ReturnNone ==
    /\ retry.pc = "loop" /\ retry.attempt >= retry_cfg.max_attempts
    /\ retry' = [retry EXCEPT !.pc = "returned", !.result = Outcome("none", 0)]
    /\ UNCHANGED retry_cfg
    /\ Frame("retry")

RetryNext ==
    \/ PostReturns200
    \/ PostReturnsRetryStatus
    \/ PostReturnsOtherStatus
    \/ PostTimesOut
    \/ PostRaises
    \/ ReturnNone

SpecRetry == RetryInit /\ [][RetryNext]_vars

\* session.post has a timeout and time.sleep returns: a call that can take a
\* step takes one.
SpecRetryFair == SpecRetry /\ WF_vars(RetryNext)

-----------------------------------------------------------------------------
(* Claims about the spend-correction ledger (specification Spec) *)

RowsOfDate(t, d) == [r \in {x \in DOMAIN t : x.reportDate = d} |-> t[r]]
RowsOfPair(t, d, m) == [r \in {x \in DOMAIN t : x.reportDate = d /\ x.Media = m} |-> t[r]]
MayWrite == {"admin", "ops"}

\* C1: after any sequence of completed sync, update-spend and lock-date operations,
\* every stored SpendRecord has spend_final = spend_original + spend_manual.
C1_FinalIsOriginalPlusManual ==
    \A r \in DOMAIN table : r.spend_final = r.spend_original + r.spend_manual

\* C2: once lock-date(date, true) has been applied, a sync whose range covers the
\* date leaves the SpendRecords stored for that date exactly as they were,
\* whatever the fact table holds. (Stated for a date that holds records when the
\* sync runs: lock-date on a date without rows writes nothing.)
C2_SyncLeavesLockedDate ==
    [][\A q \in SyncRequests :
          (/\ q[1] \in MayWrite /\ q[2] \in Dates /\ q[3] \in Dates
           /\ sync_data_from_performance(q[1], q[2], q[3], q[4]))
          => \A d \in Dates :
                (/\ lockReq[d]
                 /\ InRange(d, q[2], q[3])
                 /\ RowsOfDate(table, d) # EmptyBag)
                    => RowsOfDate(table', d) = RowsOfDate(table, d)]_vars

\* C3: an update-spend(date, media, target) by admin or ops ends with spend_final =
\* target on the pair; a record that existed gets spend_manual = target - its
\* spend_original and keeps its spend_original; if none existed, one record is
\* created with spend_original = 0 and spend_manual = spend_final = target.
C3_UpdateSpendSetsFinal ==
    [][\A q \in UpdateRequests :
          (/\ q[1] \in MayWrite /\ q[2] \in Dates
           /\ update_spend(q[1], q[2], q[3], q[4]))
          => LET before == RowsOfPair(table, q[2], q[3])
                 after  == RowsOfPair(table', q[2], q[3])
             IN /\ \A r \in DOMAIN after : r.spend_final = q[4]
                /\ IF before = EmptyBag
                   THEN /\ BagCardinality(after) = 1
                        /\ \A r \in DOMAIN after :
                              r.spend_original = 0 /\ r.spend_manual = q[4]
                   ELSE /\ \A r \in DOMAIN after :
                              r.spend_manual = q[4] - r.spend_original
                        /\ BagOfAll(LAMBDA r : r.spend_original, after)
                             = BagOfAll(LAMBDA r : r.spend_original, before)]_vars

\* C4: a request of update-spend, lock-date or sync by a role that is neither admin
\* nor ops is answered 403 and leaves the table as it was.
C4_ForbiddenRoleChangesNothing ==
    [][resp'.role \notin MayWrite => (resp'.status = 403 /\ table' = table)]_vars

\* C4 witness: a request was refused with 403 while the table held rows.
C4_Witness ==
    resp.role = "business" /\ resp.status = 403 /\ table # EmptyBag

\* C5: right after a sync, every (date, media) group of the fact table in the range
\* that had no locked row is stored as exactly one record with spend_original = the
\* group's summed spend, spend_manual = 0 and spend_final = spend_original.
C5_SyncRefreshesUnlockedGroups ==
    \A x \in lastSync.due :
        LET rows == RowsOfPair(table, x[1], x[2])
        IN /\ BagCardinality(rows) = 1
           /\ \A r \in DOMAIN rows :
                 /\ r.spend_original = x[3]
                 /\ r.spend_manual = 0
                 /\ r.spend_final = r.spend_original

\* C5 witness: a sync has replaced a manually corrected row by the sum of two fact rows.
C5_Witness ==
    /\ resp.status = 200
    /\ lastSync.dropped
    /\ \E x \in lastSync.due : x[3] = 3

-----------------------------------------------------------------------------
(* Claims about the permission filters (specification SpecPerm) *)

SpecRoles == {"admin", "ops", "ops02", "business"}
Built == permOut # Pending

\* C6: for every role in {admin, ops, ops02, business} and every keyword list
\* in {[], ["x"]}, the builder returns None (no row restriction) if and only
\* if the role is admin or the keyword list is empty.
C6_NoneIffAdminOrNoKeywords ==
    (/\ Built
     /\ permIn.role \in SpecRoles
     /\ permIn.keywords \in {<<>>, <<"x">>})
    => (permOut = NoFilter <=> (permIn.role = "admin" \/ permIn.keywords = <<>>))

RoleColumn(role) ==
    CASE role = "ops" -> "Adset"
      [] role = "ops02" -> "Media"
      [] role = "business" -> "offer"

\* C7: for a non-empty keyword list the filter restricts rows on the Adset
\* column for role ops, on the Media column for role ops02 and on the offer
\* column for role business, in the dashboard, daily and hourly families.
C7_RoleSelectsColumn ==
    (/\ Built
     /\ permIn.family \in {"dashboard", "daily", "hourly"}
     /\ permIn.role \in {"ops", "ops02", "business"}
     /\ permIn.keywords # <<>>)
    => /\ permOut # NoFilter
       /\ \A i \in DOMAIN permOut.conditions :
              permOut.conditions[i].column = RoleColumn(permIn.role)

-----------------------------------------------------------------------------
(* Claims about the hierarchy builders (specification SpecHier) *)

\* The values of a row for the dimensions d1, d2 of the running builder.
DimValues(row) ==
    IF hFamily = "dashboard" THEN <<row.Media, row.Adset>>
    ELSE <<row.date_str, row.media>>

OrUnknown(v) == IF v = "" \/ v = None THEN "Unknown" ELSE v

\* The path of length k a row belongs to: d1..dk, null/empty as "Unknown".
PathOfRow(row, k) == [i \in 1..k |-> OrUnknown(DimValues(row)[i])]

RECURSIVE SumMatching(_, _, _)
\* The sum of counter c over the first n input rows that belong to path p.
SumMatching(p, c, n) ==
    IF n = 0 THEN 0
    ELSE SumMatching(p, c, n - 1)
         + (IF PathOfRow(hRows[n], Len(p)) = p THEN hRows[n][c] ELSE 0)

RECURSIVE SumOfNodes(_, _)
\* The sum of counter c over the nodes at the paths of S.
SumOfNodes(S, c) ==
    IF S = {} THEN 0
    ELSE LET p == CHOOSE q \in S : TRUE
         IN hTree[p][c] + SumOfNodes(S \ {p}, c)

RECURSIVE SumOfRows(_, _)
\* The sum of counter c over the first n input rows.
SumOfRows(c, n) == IF n = 0 THEN 0 ELSE SumOfRows(c, n - 1) + hRows[n][c]

Max1(x) == IF x > 1 THEN x ELSE 1

\* C8: after the builder has folded the rows, each node's impressions, clicks,
\* conversions, spend, revenue and mobile counters are the elementwise sum over
\* exactly the input rows whose d1..dk values (null/empty replaced by
\* "Unknown") equal the node's path; no row's metrics are lost or counted
\* twice at any level (the nodes of a level add up to the sum of all rows).
C8_NodeSumsItsRows ==
    hPc = "done" =>
        /\ \A p \in DOMAIN hTree : \A c \in Counters :
               hTree[p][c] = SumMatching(p, c, Len(hRows))
        /\ \A k \in 1..2 : \A c \in Counters :
               SumOfNodes({p \in DOMAIN hTree : Len(p) = k}, c) = SumOfRows(c, Len(hRows))

\* C9: at every node, once all rows are folded, ctr, cvr, roi and cpa are the
\* MetricDeriver formulas of the node's final sums (ctr = clicks /
\* max(impressions, 1), cvr = conversions / max(clicks, 1), cpa = spend /
\* max(conversions, 1), and roi = profit / max(spend, 1), here compared at
\* spend > 0, spend = 0 being the case of C10), whether the node was built
\* from one row or accumulated from several.
C9_RatiosFromFinalSums ==
    hPc = "done" =>
        \A p \in DOMAIN hTree :
            LET n == hTree[p]
            IN /\ RatioEq(n.ctr, Ratio(n.clicks, Max1(n.impressions)))
               /\ RatioEq(n.cvr, Ratio(n.conversions, Max1(n.clicks)))
               /\ n.spend > 0 => RatioEq(n.roi, Ratio(n.revenue - n.spend, Max1(n.spend)))
               /\ RatioEq(n.cpa, Ratio(n.spend, Max1(n.conversions)))

\* What C10 says of one set of sums and its derived ratios.
FlooredAtZero(n) ==
    /\ n.spend = 0 => RatioEq(n.roi, Ratio(n.revenue - n.spend, 1))
    /\ (n.impressions = 0 /\ n.clicks = 0 /\ n.conversions = 0)
           => (RatioEq(n.ctr, Zero) /\ RatioEq(n.cvr, Zero))

\* C10: every derived ratio has its denominator floored to 1: a hierarchy node
\* or formatted row whose spend is 0 reports roi equal to its profit
\* (revenue - spend), and one whose counts are all 0 reports ctr = 0 and
\* cvr = 0.
C10_ZeroDenominatorsFloorToOne ==
    hPc = "done" =>
        /\ \A p \in DOMAIN hTree : FlooredAtZero(hTree[p])
        /\ \A i \in DOMAIN hRows : FlooredAtZero(format_row_for_frontend(hRows[i]))

-----------------------------------------------------------------------------
(* Claims about the MTG cost merge (specification SpecMerge) *)

\* The sum of two quotients.
RatioAdd(a, b) == <<a[1] * b[2] + b[1] * a[2], a[2] * b[2]>>

RECURSIVE SumSpendAt(_, _)
\* The sum of spend over the rows of cf_data at the positions S.
SumSpendAt(rows, S) ==
    IF S = {} THEN Zero
    ELSE LET i == CHOOSE j \in S : TRUE
         IN RatioAdd(rows[i].spend, SumSpendAt(rows, S \ {i}))

RECURSIVE MtgSpendOfKey(_, _)
\* The aggregated secondary spend of key K: the sum over the first n MTG rows.
MtgSpendOfKey(K, n) ==
    IF n = 0 THEN 0
    ELSE MtgSpendOfKey(K, n - 1) + (IF mtg_data[n].AdsetID = K THEN mtg_data[n].spend ELSE 0)

\* The keys of the secondary data: its AdsetIDs, but for the placeholders of a
\* missing one.
MtgKeys == {mtg_data[n].AdsetID : n \in DOMAIN mtg_data} \ {"", "0"}

\* The eligible primary rows of key K, as positions in the data passed in.
Eligible(K) == {i \in DOMAIN cf_in : cf_in[i].AdsetID = K /\ is_special_media(cf_in[i].Media)}

\* C11: for every secondary (MTG) key K with at least one eligible primary row,
\* after the cost merge the spend of the eligible primary rows of key K adds up
\* to the aggregated secondary spend of K, both when the spend is split in
\* proportion to impressions and when it is split evenly because the eligible
\* rows have 0 impressions in total.
C11_AllocatedSpendAddsUp ==
    mergePc = "done" =>
        \A K \in MtgKeys :
            Eligible(K) # {} =>
                RatioEq(SumSpendAt(cf_data, Eligible(K)), Ratio(MtgSpendOfKey(K, Len(mtg_data)), 1))

\* A run with a proportional split over two rows of different impressions, in
\* the presence of a row of the key that is not eligible.
C11_Witness ==
    /\ mergePc = "done"
    /\ \E K \in MtgKeys :
          /\ \E i, j \in Eligible(K) : cf_in[i].impressions = 1 /\ cf_in[j].impressions = 3
          /\ MtgSpendOfKey(K, Len(mtg_data)) = 6

\* The fields the merge allocates.
Allocated(row) == <<row.spend, row.m_imp, row.m_clicks, row.m_conv>>

\* C12: the cost merge leaves spend, m_imp, m_clicks and m_conv unchanged on
\* every primary row that is not eligible (its media name contains no
\* configured keyword, compared case-insensitively), also when it shares its
\* key with eligible rows, and on every primary row whose key has no secondary
\* data.
C12_OtherRowsKeepTheirCost ==
    \A i \in DOMAIN cf_in :
        (~is_special_media(cf_in[i].Media) \/ cf_in[i].AdsetID \notin MtgKeys)
            => Allocated(cf_data[i]) = Allocated(cf_in[i])

\* The merge is over, a row that is not eligible shares its key with an
\* eligible row that got a new spend, and a row of a key without secondary
\* data is present.
C12_Witness ==
    /\ mergePc = "done"
    /\ \E i, j \in DOMAIN cf_in :
          /\ cf_in[i].AdsetID = cf_in[j].AdsetID
          /\ ~is_special_media(cf_in[i].Media)
          /\ is_special_media(cf_in[j].Media)
          /\ cf_in[j].Media = XMINTEGRAL
          /\ cf_data[j].spend # cf_in[j].spend

-----------------------------------------------------------------------------
(* Claims about the hourly ETL (specification SpecEtl) *)

\* C13: in an hourly ETL run the delete is issued only after the fetch has
\* returned; a run whose fetch raises exits and leaves the hourly table as
\* it was.
C13_DeleteOnlyAfterFetch ==
    [][\A p \in PIDs :
          /\ (etl[p].pc # "deleted" /\ etl'[p].pc = "deleted") => etl[p].pc = "transformed"
          /\ (etl[p].pc = "fetching" /\ etl'[p].pc = "fetch failed") => hourly_report' = hourly_report
          /\ (\E r \in BagToSet(hourly_report) : CopiesIn(r, hourly_report') < CopiesIn(r, hourly_report))
                => \E q \in PIDs : etl[q].pc = "transformed" /\ etl'[q].pc = "deleted"]_vars

\* A run has failed in its fetch while the table held rows of its window.
C13_Witness ==
    \E p \in PIDs :
        /\ etl[p].pc = "fetch failed"
        /\ \E r \in BagToSet(hourly_report) : r.timezone = "UTC"

\* C14: when an hourly ETL run over [start, end) completes, the UTC rows of
\* the table with a timestamp in [start, end) are exactly the rows the run
\* fetched and transformed, each once.
C14_WindowHoldsTheRunsRows ==
    [][\A p \in PIDs :
          (etl[p].pc = "deleted" /\ etl'[p].pc = "done")
             => WindowRows(hourly_report', etl[p].start_dt, etl[p].end_dt) = SetToBag(etl[p].data)]_vars

\* C16: at no time are two hourly ETL processes running.
C16_OneHourlyEtlAtATime ==
    Cardinality({p \in PIDs : Running(etl[p])}) <= 1

-----------------------------------------------------------------------------
(* Claims about the daily Clickflare ETL run (specification SpecDaily) *)

RowsOn(t, report_date) == [r \in {x \in BagToSet(t) : x.reportDate = report_date} |-> t[r]]

\* C15: when a daily Clickflare ETL run ends in failure (run returns False),
\* the fact-table rows of its report date are the rows stored before the run.
C15_FailedRunLeavesTheDate ==
    (cf_run.pc = "returned" /\ cf_run.ret = "False")
        => RowsOn(ch_table, cf_run.report_date) = RowsOn(ch_before, cf_run.report_date)

-----------------------------------------------------------------------------
(* Claims about the scheduler lock (specification SpecSched) *)

\* C17: of the API workers calling start_scheduler concurrently at most one
\* holds the exclusive lock and has a running scheduler; a worker that did
\* not get the lock has returned without scheduling any job.
C17_OneWorkerSchedules ==
    /\ Cardinality({w \in Workers : worker[w].pc \in {"locked", "started"}}) <= 1
    /\ Cardinality({w \in Workers : worker[w].running}) <= 1
    /\ \A w \in Workers :
          /\ worker[w].running => lock_holder = w
          /\ worker[w].pc = "skipped" => worker[w].jobs = {} /\ ~worker[w].running

\* One worker runs the scheduler and two others have returned without it.
C17_Witness ==
    /\ \E w \in Workers : worker[w].pc = "started"
    /\ Cardinality({w \in Workers : worker[w].pc = "skipped"}) >= 2

-----------------------------------------------------------------------------
(* Claims about the hourly query's time zone arithmetic (specification SpecTz) *)

\* The local date (UTC + offset) of an hour bucket.
LocalDate(b, tz_offset) == DateOf(b + tz_offset * Hour)

\* C18: for the selected date D of the target time zone and its offset O the
\* UTC range of the hourly query starts at D 00:00 minus O hours, and the
\* hour buckets selected are exactly those whose local time (UTC + O) falls
\* on D (for today, those up to now).
C18_WindowIsTheLocalDay ==
    tz_out.pc # "request" =>
        /\ tz_out.utc_start = tz_in.target_date * Day - tz_in.tz_offset * Hour
        /\ tz_out.buckets = {b \in BucketTs : /\ LocalDate(b, tz_in.tz_offset) = tz_in.target_date
                                              /\ IsToday(tz_in.target_date, tz_in.tz_offset, tz_in.utc_now)
                                                    => b < tz_in.utc_now}

\* C19: for every offset in {-8, 0, 5, 8} and every hour in 0..23 the UTC
\* hour (hour - offset + 24) mod 24 and, from it, the local hour
\* (utc_hour + offset + 24) mod 24 lie in 0..23, and the local hour is the
\* original hour.
C19_HourRoundTrip ==
    /\ tz_out.pc \in {"filter", "grouped"} => tz_out.utc_hour \in 0..23
    /\ tz_out.pc = "grouped" => tz_out.group_hour = tz_in.hour_val

\* An hour that wraps around midnight both ways has been converted and back.
C19_Witness ==
    /\ tz_out.pc = "grouped"
    /\ tz_in.tz_offset = 0 - 8
    /\ tz_in.hour_val = 20
    /\ tz_out.utc_hour = 4

-----------------------------------------------------------------------------
(* Claims about the two-pass merge (specification SpecPass) *)

\* The nine key fields of a row, and the pass-2 rows that have those of a
\* given row, by position.
KeyFields(row) ==
    <<row.date, row.trafficSourceID, row.offerID, row.trackingField1, row.trackingField2,
      row.trackingField3, row.trackingField4, row.trackingField5, row.trackingField6>>
SameKeyRows(row) == {j \in 1..Len(pass2_data) : KeyFields(pass2_data[j]) = KeyFields(row)}
FirstOf(S) == CHOOSE j \in S : \A k \in S : j <= k

\* C20: with a non-empty pass 2, merge_two_pass_data returns the pass-1 rows,
\* as many and in the same order; the landingID and landingName of each are
\* those of the first pass-2 row with the same nine key fields, or empty
\* strings when there is none; every other field is unchanged.
C20_LandingOfFirstMatch ==
    (passPc = "done" /\ pass2_data # <<>>) =>
        /\ Len(pass1_data) = Len(pass1_in)
        /\ \A i \in 1..Len(pass1_in) :
              LET matches == SameKeyRows(pass1_in[i])
                  landing == IF matches = {} THEN [landingID |-> "", landingName |-> ""]
                             ELSE [landingID |-> pass2_data[FirstOf(matches)].landingID,
                                   landingName |-> pass2_data[FirstOf(matches)].landingName]
              IN  pass1_data[i] = [pass1_in[i] EXCEPT !.landingID = landing.landingID,
                                                      !.landingName = landing.landingName]

\* C21: merge_two_pass_data(pass1, []) returns pass1 with every row and
\* every field unchanged, the landingID and landingName a row carried
\* included.
C21_EmptyPass2ReturnsPass1 ==
    (passPc = "done" /\ pass2_data = <<>>) => pass1_data = pass1_in

\* The merge has returned for an empty pass 2 and rows that carry a landing.
C21_Witness ==
    /\ passPc = "done"
    /\ pass2_data = <<>>
    /\ Len(pass1_in) = 2
    /\ \A i \in 1..Len(pass1_data) : pass1_data[i].landingID = "stale"

\* The dimension levels the builder of this run was asked for.
RequestedDims == IF hFamily = "daily" THEN DailyDims ELSE dim_list

\* C22: in every hierarchy a builder returns, a node's children field is
\* null exactly when the node is at the deepest requested dimension level;
\* every node above that level carries a mapping of child nodes.
C22_ChildrenNullExactlyAtLeaves ==
    hPc = "done" =>
        \A p \in DOMAIN hTree :
            /\ hTree[p].children = None <=> Len(p) = Len(RequestedDims)
            /\ Len(p) < Len(RequestedDims) =>
                   /\ hTree[p].children = "dict"
                   /\ \E q \in DOMAIN hTree : Len(q) = Len(p) + 1 /\ SubSeq(q, 1, Len(p)) = p

\* C23: after any sequence of sync, update-spend and lock-date operations,
\* syncs over ranges that contain locked dates included, the daily-report
\* table holds at most one SpendRecord per (date, media).
C23_OneRecordPerDateAndMedia ==
    \A d \in Dates : \A m \in MediaNames :
        BagCardinality(RowsOfPair(table, d, m)) <= 1

\* C30: from a lock-date(date, true) until the next lock-date(date, false),
\* every SpendRecord of the date has is_locked = 1, the records created in
\* between by update-spend or by a sync included.
C30_LockedDateHoldsOnlyLockedRecords ==
    \A d \in Dates :
        lockReq[d] => \A r \in DOMAIN RowsOfDate(table, d) : r.is_locked = 1

\* C24: whenever no hourly ETL process is running, the UTC rows of the hourly
\* table in the window [start, end) of the run started last are either the
\* complete set that run fetched or the rows stored before it started; a run
\* that is killed, or whose insert fails, after its delete step does not
\* leave the window empty or partly filled.  The table changes only while a
\* process runs, so the property is stated for the step in which the run
\* started last exits and leaves no process running.
C24_WindowIsWholeOrUntouched ==
    [][\A p \in PIDs :
          (/\ latest_run.pid = p
           /\ Running(etl[p])
           /\ \A q \in PIDs : Free(etl'[q]))
          => LET rows == WindowRows(hourly_report', etl[p].start_dt, etl[p].end_dt)
             IN \/ rows = latest_run.before
                \/ /\ etl[p].pc \in {"transformed", "deleted"}
                   /\ rows = SetToBag(etl[p].data)]_vars

RECURSIVE SumFieldAt(_, _, _)
\* The sum of the counter f over the rows of cf_data at the positions S.
SumFieldAt(rows, S, f) ==
    IF S = {} THEN 0
    ELSE LET i == CHOOSE j \in S : TRUE
         IN rows[i][f] + SumFieldAt(rows, S \ {i}, f)

RECURSIVE MtgFieldOfKey(_, _, _)
\* The aggregated secondary counter f of key K: the sum over the first n MTG rows.
MtgFieldOfKey(K, n, f) ==
    IF n = 0 THEN 0
    ELSE MtgFieldOfKey(K, n - 1, f) + (IF mtg_data[n].AdsetID = K THEN mtg_data[n][f] ELSE 0)

\* C25: for every MTG key K with at least one eligible primary row, after the
\* cost merge the sums of m_imp, of m_clicks and of m_conv over the eligible
\* primary rows of K equal the aggregated secondary m_imp, m_clicks and
\* m_conv of K.
C25_AllocatedCountersAddUp ==
    mergePc = "done" =>
        \A K \in MtgKeys :
            Eligible(K) # {} =>
                \A f \in {"m_imp", "m_clicks", "m_conv"} :
                    SumFieldAt(cf_data, Eligible(K), f) = MtgFieldOfKey(K, Len(mtg_data), f)

\* The MTG-only rows of key K in the merged data.
MtgOnlyRowsOf(K) ==
    {i \in DOMAIN cf_data : cf_data[i].dataSource = "MTG" /\ cf_data[i].AdsetID = K}

\* C26: after the cost merge every aggregated MTG key with a usable AdsetID
\* has its whole spend in the output, either distributed onto the Clickflare
\* rows of that AdsetID or carried by one new MTG-only row whose Clickflare
\* counters are 0, so that the MTG spend of the output is the aggregated MTG
\* spend.  (The rows of the model carry impressions as their Clickflare
\* counter.)
C26_AllMtgSpendIsKept ==
    mergePc = "done" =>
        \A K \in MtgKeys :
            LET agg == Ratio(MtgSpendOfKey(K, Len(mtg_data)), 1)
            IN \/ /\ Eligible(K) # {}
                  /\ MtgOnlyRowsOf(K) = {}
                  /\ RatioEq(SumSpendAt(cf_data, Eligible(K)), agg)
               \/ /\ Eligible(K) = {}
                  /\ Cardinality(MtgOnlyRowsOf(K)) = 1
                  /\ \A i \in MtgOnlyRowsOf(K) :
                        RatioEq(cf_data[i].spend, agg) /\ cf_data[i].impressions = 0

-----------------------------------------------------------------------------
(* Claims about update-spend interleaved with sync (specification SpecConc) *)

\* C27: when an update-spend and a sync for the same unlocked (date, media)
\* run concurrently, with the sync's delete and re-insert falling between the
\* update-spend's read of spend_original and its write of spend_manual and
\* spend_final, the resulting record still has spend_final = spend_original
\* + spend_manual.
C27_RacingUpdateKeepsTheEquation ==
    [][(upd.pc = "checked" /\ upd.synced /\ upd'.pc = "idle")
          => \A r \in DOMAIN RowsOfPair(table', upd.date, upd.media) :
                r.spend_final = r.spend_original + r.spend_manual]_vars

-----------------------------------------------------------------------------
(* Claims about the hourly cache (specification SpecCache) *)

\* C28: once a successful scheduled hourly ETL run has cleared the hourly:*
\* entries, a request for any key that arrives afterwards is answered with
\* data read from the warehouse after that run, never with a cache entry
\* computed from data older than the run, also when a near-expiry refresh of
\* the key was in flight while the ETL ran.
C28_NoStaleAnswerAfterClear ==
    served.key # None => served.value >= served.floor

-----------------------------------------------------------------------------
(* Claims about the report request with retries (specification SpecRetryFair) *)

\* The outcomes the claim calls retryable.
Retryable(o) ==
    \/ o.kind \in {"timeout", "error"}
    \/ o.kind = "response" /\ o.code \in retry_cfg.retry_status_codes

\* What holds of a call at any moment and when it has returned.
RetryBounded ==
    /\ Len(retry.outcomes) <= retry_cfg.max_attempts
    /\ retry.pc = "returned" =>
          LET n == Len(retry.outcomes)
              last == retry.outcomes[n]
          IN /\ n >= 1
             \* an attempt is followed by another only if it was retryable
             /\ \A i \in 1..(n - 1) : Retryable(retry.outcomes[i])
             \* the call stops short of max_attempts only on a response it returns
             /\ n < retry_cfg.max_attempts => ~Retryable(last)
             \* one sleep of backoff_factor ** attempt between two attempts
             /\ retry.sleeps = [i \in 1..(n - 1) |-> Power(retry_cfg.backoff_factor, i)]
             \* a response is returned as it came; a timeout or error at the end gives None
             /\ last.kind = "response" => retry.result = last
             /\ last.kind # "response" => retry.result.kind = "none"
             /\ (\A i \in 1..n : retry.outcomes[i].kind # "response") => retry.result.kind = "none"

\* C29: a Clickflare report request makes at most max_attempts HTTP attempts
\* and then returns: a 200 is returned at once, a status outside
\* retry_status_codes is returned without a retry, retryable statuses, timeouts
\* and connection errors are retried only while attempts remain, with a sleep
\* of backoff_factor ** attempt between attempts, and when every attempt
\* times out or errors the result is None.
C29_BoundedRetriesThenReturn ==
    []RetryBounded /\ <>(retry.pc = "returned")

\* A call that used all three attempts, slept 3 and 9 seconds between them,
\* and returned None after a retryable status, a timeout and an error.
C29_Witness ==
    /\ retry.pc = "returned"
    /\ retry.result.kind = "none"
    /\ retry.sleeps = <<3, 9>>
    /\ retry.outcomes = <<Responded(503), TimedOut, RequestFailed>>

====
